---- MODULE Spec2Model ----
(***************************************************************************)
(* Model of script.js: the tween engine (AnimEngine.to / _animateSingle),  *)
(* the scroll trigger (AnimEngine.scrollTrigger), the particle background  *)
(* (initParticles) and the load sequence that wires them together.         *)
(*                                                                         *)
(* JavaScript numbers are modelled as exact rationals <<n, d>> (d > 0, in  *)
(* lowest terms).  Time is in milliseconds, as performance.now() and the   *)
(* requestAnimationFrame timestamp report it.                              *)
(***************************************************************************)
EXTENDS Integers, Sequences, FiniteSets, TLC

(***************************************************************************)
(* Numbers                                                                 *)
(***************************************************************************)
Abs(a) == IF a < 0 THEN -a ELSE a

RECURSIVE GCD(_, _)
GCD(a, b) == IF b = 0 THEN a ELSE GCD(b, a % b)

Norm(n, d) ==
    LET g == GCD(Abs(n), Abs(d))
        s == IF d < 0 THEN -1 ELSE 1
    IN  <<(s * n) \div g, (s * d) \div g>>

R(n) == <<n, 1>>
Q(n, d) == Norm(n, d)

LCM(a, b) == (a \div GCD(a, b)) * b

RAdd(a, b) ==
    LET l == LCM(a[2], b[2])
    IN  Norm(a[1] * (l \div a[2]) + b[1] * (l \div b[2]), l)
RNeg(a) == <<-a[1], a[2]>>
RSub(a, b) == RAdd(a, RNeg(b))
RMul(a, b) ==
    LET g1 == GCD(Abs(a[1]), b[2])
        g2 == GCD(Abs(b[1]), a[2])
        h1 == IF g1 = 0 THEN 1 ELSE g1
        h2 == IF g2 = 0 THEN 1 ELSE g2
    IN  Norm((a[1] \div h1) * (b[1] \div h2), (a[2] \div h2) * (b[2] \div h1))
RDiv(a, b) == RMul(a, IF b[1] < 0 THEN <<-b[2], -b[1]>> ELSE <<b[2], b[1]>>)
RLt(a, b) ==
    LET l == LCM(a[2], b[2]) IN a[1] * (l \div a[2]) < b[1] * (l \div b[2])
RLe(a, b) == ~RLt(b, a)
RMin(a, b) == IF RLt(a, b) THEN a ELSE b
RZero == R(0)
ROne == R(1)

RECURSIVE IntPow(_, _)
IntPow(b, k) == IF k = 0 THEN 1 ELSE b * IntPow(b, k - 1)
RPow(a, k) == <<IntPow(a[1], k), IntPow(a[2], k)>>

(***************************************************************************)
(* AnimEngine.easings (static table)                                       *)
(***************************************************************************)
linear(t) == t

easeOutQuad(t) == RMul(t, RSub(R(2), t))

c1 == Q(170158, 100000)
c3 == RAdd(c1, ROne)
easeOutBack(t) ==
    LET u == RSub(t, ROne)
    IN  RAdd(RAdd(ROne, RMul(c3, RPow(u, 3))), RMul(c1, RPow(u, 2)))

\* Math.pow(2, -e) for a rational e >= 0.  Exact where e is an integer; between
\* two integers the value is interpolated linearly (2^-e is irrational there).
Pow2Neg(e) ==
    LET k == e[1] \div e[2]
        f == RSub(e, R(k))
    IN  RMul(Q(1, IntPow(2, k)), RSub(ROne, RDiv(f, R(2))))

easeOutExpo(t) == IF t = ROne THEN ROne ELSE RSub(ROne, Pow2Neg(RMul(R(10), t)))

EasingNames == {"linear", "easeOutQuad", "easeOutBack", "easeOutExpo"}

\* AnimEngine.easings is an object literal: a lookup by a name it does not hold
\* itself goes on to Object.prototype.  These members are all truthy, so the
\* lookup yields them: Object, Object.prototype.toString, ...isPrototypeOf,
\* ...valueOf, ...hasOwnProperty and Object.prototype itself.
InheritedNames ==
    {"constructor", "toString", "isPrototypeOf", "valueOf", "hasOwnProperty", "__proto__"}

\* called as easing(progress), without a receiver, these throw a TypeError:
\* valueOf and hasOwnProperty convert an undefined this to an object, and
\* Object.prototype is not a function
ThrowingNames == {"valueOf", "hasOwnProperty", "__proto__"}

\* the number NaN
NaN == <<0, 0>>

\* AnimEngine.easings[name](t) as a factor of the interpolation, for a name the
\* lookup finds and whose call returns
ApplyEasing(name, t) ==
    CASE name = "linear" -> linear(t)
      [] name = "easeOutQuad" -> easeOutQuad(t)
      [] name = "easeOutBack" -> easeOutBack(t)
      [] name = "easeOutExpo" -> easeOutExpo(t)
      \* Object(t) is a Number object, as a factor it is t
      [] name = "constructor" -> t
      \* "[object Undefined]" as a factor is NaN
      [] name = "toString" -> NaN
      \* isPrototypeOf(t) is false for a number, as a factor 0
      [] name = "isPrototypeOf" -> RZero

(***************************************************************************)
(* The document.  The markup is not part of the script; the elements, the  *)
(* selectors they match and their stylesheet opacity are the environment.  *)
(***************************************************************************)
Null == "null"

\* the elements a selector string matches, in document order
QuerySelectorAll(doc, selector) ==
    SelectSeq(doc, LAMBDA el : selector \in el.sel)

\* document.querySelector / getElementById: the first match, or Null
QuerySelector(doc, selector) ==
    LET m == QuerySelectorAll(doc, selector)
    IN  IF m = <<>> THEN Null ELSE m[1].id

Unset == <<>>

\* the opacity the page's stylesheet gives an element
CssOpacity(el) ==
    CASE el = "e2" -> Q(1, 2)
      [] el = "e3" -> RZero
      [] OTHER -> ROne

\* window.getComputedStyle(el).opacity, parsed by parseFloat: the inline value
\* when one is set, else the stylesheet's; the computed value is clamped to [0, 1]
Clamp01(v) == IF RLt(v, RZero) THEN RZero ELSE IF RLt(ROne, v) THEN ROne ELSE v
ComputedOpacity(w, el) ==
    Clamp01(IF w.style[el].opacity = Unset THEN CssOpacity(el)
            ELSE w.style[el].opacity)

\* a value with NaN in it does not parse as a CSS value: the assignment to the
\* style property is then ignored
ValidValue(prop, value) ==
    CASE prop = "opacity" -> value # NaN
      [] prop = "transform" ->
            \A i \in DOMAIN value : \A k \in DOMAIN value[i].args : value[i].args[k] # NaN
      [] OTHER -> TRUE

\* el.style[prop] = value, by tween id, 0 for a write that is not a tween's
\* (the frame's writes are kept in order)
SetStyle(w, el, prop, value, id) ==
    [w EXCEPT !.style[el][prop] = IF ValidValue(prop, value) THEN value ELSE @,
              !.written = Append(@, [tween |-> id, el |-> el, prop |-> prop,
                                     value |-> value])]

\* target.addEventListener(type, ...) and target.on<type> = ...; by names the
\* initializer whose handler it is
Listener(target, type, by) == [target |-> target, type |-> type, by |-> by]
AddEventListener(w, target, type, by) ==
    [w EXCEPT !.listeners = @ \cup {Listener(target, type, by)}]

(***************************************************************************)
(* Descriptors (the vars argument) are records that hold exactly the       *)
(* properties the caller passed: vars.k === undefined is k \notin DOMAIN.  *)
(***************************************************************************)
Has(v, k) == k \in DOMAIN v
\* v.k used as a condition, for a numeric property: undefined and 0 are falsy
Truthy(v, k) == Has(v, k) /\ v[k] # RZero
\* v.k || dflt
OrDefault(v, k, dflt) == IF Truthy(v, k) THEN v[k] ELSE dflt
\* v.k !== undefined ? v.k : dflt
DefinedOr(v, k, dflt) == IF Has(v, k) THEN v[k] ELSE dflt
\* { ...v, k: val }
Spread(v, k, val) == [f \in DOMAIN v \cup {k} |-> IF f = k THEN val ELSE v[f]]

\* requestAnimationFrame(cb): cb joins the callbacks of the next frame
RequestAnimationFrame(w, cb) == [w EXCEPT !.raf = Append(@, cb)]

TickCb(id) == [kind |-> "tick", id |-> id]

(***************************************************************************)
(* AnimEngine._animateSingle(el, vars): the part that runs in the call     *)
(***************************************************************************)
\* AnimEngine.easings[vars.ease] || AnimEngine.easings.easeOutQuad
ResolveEasing(v) ==
    IF Has(v, "ease") /\ v.ease \in EasingNames \cup InheritedNames THEN v.ease
    ELSE "easeOutQuad"

EndState(v, startState) ==
    [opacity |-> DefinedOr(v, "opacity", startState.opacity),
     x       |-> DefinedOr(v, "x", RZero),
     y       |-> DefinedOr(v, "y", RZero),
     scale   |-> DefinedOr(v, "scale", ROne),
     rotate  |-> DefinedOr(v, "rotate", RZero)]

\* (a tween that takes the duration as given, 0 included)
NewTweenRawDuration(w, el, v, call, index) ==
    LET duration == RMul(DefinedOr(v, "duration", ROne), R(1000))
        delay == RMul(OrDefault(v, "delay", RZero), R(1000))
        easing == ResolveEasing(v)
        startState == [opacity |-> ComputedOpacity(w, el),
                       scale |-> ROne, x |-> RZero, y |-> RZero, rotate |-> RZero]
        endState == EndState(v, startState)
        startTime == RAdd(R(w.clock), delay)
        tween == [el |-> el, vars |-> v, duration |-> duration, delay |-> delay,
                  easing |-> easing, startState |-> startState,
                  endState |-> endState, startTime |-> startTime,
                  \* history: the call it belongs to, what its tick has done so far
                  call |-> call, index |-> index, calledAt |-> w.clock,
                  ticks |-> 0, writes |-> 0, firstWrite |-> Unset,
                  progress |-> Unset, done |-> 0, doneArg |-> <<>>,
                  doneAt |-> Unset, lateTicks |-> 0]
    IN  tween

NewTween(w, el, v, call, index) ==
    LET duration == RMul(OrDefault(v, "duration", ROne), R(1000))
        delay == RMul(OrDefault(v, "delay", RZero), R(1000))
        easing == ResolveEasing(v)
        startState == [opacity |-> ComputedOpacity(w, el),
                       scale |-> ROne, x |-> RZero, y |-> RZero, rotate |-> RZero]
        endState == EndState(v, startState)
        startTime == RAdd(R(w.clock), delay)
        tween == [el |-> el, vars |-> v, duration |-> duration, delay |-> delay,
                  easing |-> easing, startState |-> startState,
                  endState |-> endState, startTime |-> startTime,
                  \* history: the call it belongs to, what its tick has done so far
                  call |-> call, index |-> index, calledAt |-> w.clock,
                  ticks |-> 0, writes |-> 0, firstWrite |-> Unset,
                  progress |-> Unset, done |-> 0, doneArg |-> <<>>,
                  doneAt |-> Unset, lateTicks |-> 0]
    IN  tween

\* (a call that cancels the ticks already requested for the same element)
AnimateSingleOverwrite(w, el, v, call, index) ==
    LET kept == SelectSeq(w.raf, LAMBDA cb :
                    ~(cb.kind = "tick" /\ w.tweens[cb.id].el = el))
    IN  RequestAnimationFrame(
            [w EXCEPT !.tweens = Append(@, NewTween(w, el, v, call, index)),
                      !.raf = kept],
            TickCb(Len(w.tweens) + 1))

\* (a call that already applies the start opacity to the element)
AnimateSingleEager(w, el, v, call, index) ==
    LET w1 == RequestAnimationFrame(
                  [w EXCEPT !.tweens = Append(@, NewTween(w, el, v, call, index))],
                  TickCb(Len(w.tweens) + 1))
    IN  IF Has(v, "opacity")
           THEN SetStyle(w1, el, "opacity", ComputedOpacity(w, el), Len(w.tweens) + 1)
           ELSE w1

\* the closure is created and its tick requested for the next frame
AnimateSingle(w, el, v, call, index) ==
    RequestAnimationFrame(
        [w EXCEPT !.tweens = Append(@, NewTween(w, el, v, call, index))],
        TickCb(Len(w.tweens) + 1))

(***************************************************************************)
(* AnimEngine.to(target, vars)                                             *)
(***************************************************************************)
\* Resolve target: a selector string, a NodeList or Array, an HTMLElement;
\* anything else leaves the list empty
ResolveTarget(w, target) ==
    CASE target.kind = "selector" ->
            [i \in 1..Len(QuerySelectorAll(w.doc, target.sel)) |->
                QuerySelectorAll(w.doc, target.sel)[i].id]
      [] target.kind = "list" -> target.els
      [] target.kind = "element" -> <<target.el>>
      [] OTHER -> <<>>

\* (a stagger that counts the elements from 1)
StaggerDelayFromOne(v, index) ==
    RAdd(OrDefault(v, "delay", RZero),
         IF Truthy(v, "stagger") THEN RMul(R(index + 1), v.stagger) ELSE RZero)

\* Stagger logic
StaggerDelay(v, index) ==
    RAdd(OrDefault(v, "delay", RZero),
         IF Truthy(v, "stagger") THEN RMul(R(index), v.stagger) ELSE RZero)

\* elements.forEach((el, index) => ...), index counted from 0; i is index + 1.
\* hasVars is FALSE when the caller passed no descriptor: vars.delay then
\* throws a TypeError on the first element that is not skipped.
RECURSIVE ToEach(_, _, _, _, _, _)
ToEach(w, elements, i, hasVars, v, call) ==
    IF i > Len(elements) THEN w
    ELSE IF elements[i] = Null THEN ToEach(w, elements, i + 1, hasVars, v, call)
    ELSE IF ~hasVars THEN [w EXCEPT !.error = TRUE]
    ELSE ToEach(AnimateSingle(w, elements[i],
                              Spread(v, "delay", StaggerDelay(v, i - 1)), call, i - 1),
                elements, i + 1, hasVars, v, call)

To(w, target, hasVars, v) ==
    LET elements == ResolveTarget(w, target)
        call == Len(w.calls) + 1
        logged == [w EXCEPT !.calls =
                      Append(@, [fn |-> "to", elements |-> elements,
                                 vars |-> IF hasVars THEN v ELSE [missing |-> TRUE]])]
    IN  IF Len(elements) = 0 THEN logged
        ELSE ToEach(logged, elements, 1, hasVars, v, call)

(***************************************************************************)
(* AnimEngine.scrollTrigger(selector, options): the part that runs in the  *)
(* call.  Options are records like descriptors.                            *)
(***************************************************************************)
DefaultThreshold == Q(2, 10)

\* options.threshold || 0.2
Threshold(o) == OrDefault(o, "threshold", DefaultThreshold)

\* new IntersectionObserver(callback, { threshold }) and
\* elements.forEach(el => observer.observe(el))
NewObserver(o, elements) ==
    [options |-> o, threshold |-> Threshold(o),
     observed |-> {elements[i] : i \in DOMAIN elements},
     queue |-> <<>>,
     \* history: how often options.onEnter / options.onLeave ran, per element
     enters |-> [el \in {elements[i] : i \in DOMAIN elements} |-> 0],
     leaves |-> [el \in {elements[i] : i \in DOMAIN elements} |-> 0]]

\* (a registration that creates its observer even when nothing matched)
ScrollTriggerNoGuard(w, selector, hasOptions, o) ==
    LET matched == QuerySelectorAll(w.doc, selector)
        elements == [i \in 1..Len(matched) |-> matched[i].id]
        logged == [w EXCEPT !.calls =
                      Append(@, [fn |-> "scrollTrigger", elements |-> elements,
                                 vars |-> IF hasOptions THEN o ELSE [missing |-> TRUE]])]
    IN  IF ~hasOptions THEN [logged EXCEPT !.error = TRUE]
        ELSE [logged EXCEPT !.observers = Append(@, NewObserver(o, elements))]

\* hasOptions is FALSE when the caller passed no options: options.threshold then
\* throws a TypeError, after the early return
ScrollTrigger(w, selector, hasOptions, o) ==
    LET matched == QuerySelectorAll(w.doc, selector)
        elements == [i \in 1..Len(matched) |-> matched[i].id]
        logged == [w EXCEPT !.calls =
                      Append(@, [fn |-> "scrollTrigger", elements |-> elements,
                                 vars |-> IF hasOptions THEN o ELSE [missing |-> TRUE]])]
    IN  IF Len(elements) = 0 THEN logged
        ELSE IF ~hasOptions THEN [logged EXCEPT !.error = TRUE]
        ELSE [logged EXCEPT !.observers = Append(@, NewObserver(o, elements))]

(***************************************************************************)
(* The page's initializers (section 2 of the script)                       *)
(***************************************************************************)
Skills ==
    <<[name |-> "Java", logo |-> "java.svg", level |-> 90],
      [name |-> "JavaScript", logo |-> "javascript.svg", level |-> 95],
      [name |-> "React", logo |-> "react.svg", level |-> 85],
      [name |-> "HTML5", logo |-> "html5.svg", level |-> 100],
      [name |-> "CSS3", logo |-> "css3.svg", level |-> 90],
      [name |-> "Docker", logo |-> "docker.svg", level |-> 75],
      [name |-> "Git", logo |-> "git.svg", level |-> 80],
      [name |-> "Node.js", logo |-> "node.svg", level |-> 70],
      [name |-> "Python", logo |-> "python.svg", level |-> 50],
      [name |-> "Spring", logo |-> "spring.svg", level |-> 85],
      [name |-> "PostgreSQL", logo |-> "postgresql.svg", level |-> 75],
      [name |-> "Redis", logo |-> "redis.svg", level |-> 65]>>

\* CONFIG.logos
Logos == [i \in DOMAIN Skills |-> Skills[i].logo]

\* the elements document.createElement returns for the skill bars, in order
SkillItemIds ==
    <<"skill1", "skill2", "skill3", "skill4", "skill5", "skill6", "skill7",
      "skill8", "skill9", "skill10", "skill11", "skill12">>

CreateLogo(name, className) == [tag |-> "img", src |-> name, class |-> className]

\* container.appendChild(child), for the children that no selector of the
\* script matches: they are kept per container
AppendChildren(w, container, children) ==
    [w EXCEPT !.page.children =
        [c \in DOMAIN @ \cup {container} |->
            (IF c \in DOMAIN @ THEN @[c] ELSE <<>>)
            \o (IF c = container THEN children ELSE <<>>)]]

\* initDynamicContent()
InitDynamicContent(w) ==
    LET marqueeList == Logos \o Logos \o Logos
        logos == [i \in DOMAIN marqueeList |-> CreateLogo(marqueeList[i], "marquee-logo")]
        w1 == IF /\ QuerySelector(w.doc, "#marquee-top") # Null
                 /\ QuerySelector(w.doc, "#marquee-bottom") # Null
                 THEN AppendChildren(AppendChildren(w, "marquee-top", logos),
                                     "marquee-bottom", logos)
                 ELSE w
        bubbles == [i \in DOMAIN Skills |->
                       [tag |-> "div", class |-> "skill-bubble",
                        child |-> CreateLogo(Skills[i].logo, "")]]
        w2 == IF QuerySelector(w1.doc, "#skills-container") # Null
                 THEN AppendChildren(w1, "skills-container", bubbles)
                 ELSE w1
        \* the skill bar items are elements the script selects later
        items == [i \in DOMAIN Skills |->
                     [id |-> SkillItemIds[i], sel |-> {".skill-bar-item", ".glass-card"}]]
    IN  IF QuerySelector(w2.doc, "#skill-bars-container") # Null
           THEN [w2 EXCEPT !.doc = @ \o items,
                           !.page.fills = [i \in DOMAIN Skills |->
                                              [item |-> SkillItemIds[i],
                                               level |-> Skills[i].level,
                                               inView |-> FALSE]]]
           ELSE w2

(***************************************************************************)
(* initParticles: the particle background.  Math.random() is a generator   *)
(* with a hidden state: the state is the model's rng, each call returns    *)
(* rng / RandM and advances it.  Positions, velocities and radii are kept  *)
(* in units of 1 / Sub px, which holds every value the code computes from  *)
(* these random numbers exactly.                                           *)
(***************************************************************************)
RandomStates == 0..31
RandM == Cardinality(RandomStates)
Sub == 2 * RandM
RandStep == 11
NextRandom(s) == (s + RandStep) % RandM

PoolSize == 50
ConnectDist == 120

AnimateCb == [kind |-> "particles", id |-> 0]

\* the canvas after it is cleared.  circles: the arcs filled, in order; lines: per
\* particle i, the lines stroked in its turn; tests: per particle i, the indices j
\* its turn compared it with
NothingDrawn == [circles |-> <<>>, lines |-> <<>>, tests |-> <<>>]

\* resize(): width = canvas.width = window.innerWidth, the same for height.
\* Setting a canvas dimension clears the canvas.
ResizeCanvas(w) ==
    [w EXCEPT !.canvas = [width |-> w.viewport[1], height |-> w.viewport[2]],
              !.psys.width = w.viewport[1],
              !.psys.height = w.viewport[2],
              !.psys.nresizes = @ + 1,
              !.psys.drawn = NothingDrawn]

\* new Particle(): five calls of Math.random(), r1 .. r5 their numerators
ParticleOf(psys, r1, r2, r3, r4, r5) ==
    [x    |-> (r1 * psys.width * Sub) \div RandM,
     y    |-> (r2 * psys.height * Sub) \div RandM,
     vx   |-> ((2 * r3 - RandM) * Sub) \div (4 * RandM),
     vy   |-> ((2 * r4 - RandM) * Sub) \div (4 * RandM),
     size |-> (r5 * 2 * Sub) \div RandM,
     \* history: the resize after which the particle was created
     gen  |-> psys.nresizes]

\* the state of the generator after k calls
RandomAfter(s, k) == (s + k * RandStep) % RandM

\* init(): particles = []; for (i = 0; i < 50; i++) particles.push(new Particle())
InitPool(w) ==
    [w EXCEPT !.psys.particles =
                  [i \in 1..PoolSize |->
                      LET s == RandomAfter(w.rng, 5 * (i - 1))
                      IN  ParticleOf(w.psys, s, RandomAfter(s, 1), RandomAfter(s, 2),
                                     RandomAfter(s, 3), RandomAfter(s, 4))],
              !.rng = RandomAfter(w.rng, 5 * PoolSize)]

\* (an update that wraps a particle that is on the edge itself, too)
UpdateWrapAtEdge(p, width, height, sub) ==
    LET x1 == p.x + p.vx
        y1 == p.y + p.vy
        x2 == IF x1 <= 0 THEN width * sub ELSE x1
        x3 == IF x2 >= width * sub THEN 0 ELSE x2
        y2 == IF y1 <= 0 THEN height * sub ELSE y1
        y3 == IF y2 >= height * sub THEN 0 ELSE y2
    IN  [p EXCEPT !.x = x3, !.y = y3]

\* (an update that wraps at the left and top edges only)
UpdateWrapLow(p, width, height, sub) ==
    LET x1 == p.x + p.vx
        y1 == p.y + p.vy
    IN  [p EXCEPT !.x = IF x1 < 0 THEN width * sub ELSE x1,
                  !.y = IF y1 < 0 THEN height * sub ELSE y1]

\* Particle.update(), for a particle kept in units of 1 / sub px
UpdateIn(p, width, height, sub) ==
    LET x1 == p.x + p.vx
        y1 == p.y + p.vy
        x2 == IF x1 < 0 THEN width * sub ELSE x1
        x3 == IF x2 > width * sub THEN 0 ELSE x2
        y2 == IF y1 < 0 THEN height * sub ELSE y1
        y3 == IF y2 > height * sub THEN 0 ELSE y2
    IN  [p EXCEPT !.x = x3, !.y = y3]

Update(p, width, height) == UpdateIn(p, width, height, Sub)

\* (a distance test that also connects at the distance itself)
NearInclusive(p, p2) ==
    LET dx == p.x - p2.x
        dy == p.y - p2.y
    IN  dx * dx + dy * dy <= (ConnectDist * Sub) * (ConnectDist * Sub)

\* dist < 120, dist = Math.sqrt(dx*dx + dy*dy)
Near(p, p2) ==
    LET dx == p.x - p2.x
        dy == p.y - p2.y
    IN  dx * dx + dy * dy < (ConnectDist * Sub) * (ConnectDist * Sub)

\* Connections: for (j = i + 1; j < particles.length; j++)
\* for (j = i + 1; j < particles.length; j++): the indices j, counted from 1
Tested(ps, i) == [k \in 1..(Len(ps) - i) |-> i + k]

Connect(ps, i) ==
    SelectSeq([k \in 1..(Len(ps) - i) |->
                  [i |-> i, j |-> i + k, from |-> <<ps[i].x, ps[i].y>>,
                   to |-> <<ps[i + k].x, ps[i + k].y>>]],
              LAMBDA l : Near(ps[l.i], ps[l.j]))

\* particles.forEach((p, i) => { p.update(); p.draw(); connections })
RECURSIVE EachParticle(_, _)
EachParticle(psys, i) ==
    IF i > Len(psys.particles) THEN psys
    ELSE LET p == Update(psys.particles[i], psys.width, psys.height)
             ps == [psys.particles EXCEPT ![i] = p]
         IN  EachParticle(
                 [psys EXCEPT !.particles = ps,
                              !.drawn.circles = Append(@, <<p.x, p.y, p.size>>),
                              !.drawn.lines = Append(@, Connect(ps, i)),
                              !.drawn.tests = Append(@, Tested(ps, i))],
                 i + 1)

\* animate(): clear, draw every particle and its connections, request the next frame
Animate(w) ==
    RequestAnimationFrame(
        [w EXCEPT !.psys = EachParticle(
                      [w.psys EXCEPT !.drawn = NothingDrawn,
                                     \* history: the pool as the frame found it
                                     !.before = w.psys.particles,
                                     !.frames = @ + 1], 1)],
        AnimateCb)

\* (an initializer that uses the canvas without looking whether it is there)
InitParticlesNoGuard(w) ==
    IF QuerySelector(w.doc, "#particle-canvas") = Null THEN [w EXCEPT !.error = TRUE]
    ELSE Animate(InitPool(ResizeCanvas(
             AddEventListener([w EXCEPT !.psys.active = TRUE], "window", "resize",
                              "initParticles"))))

\* initParticles()
InitParticles(w) ==
    IF QuerySelector(w.doc, "#particle-canvas") = Null THEN w
    ELSE Animate(InitPool(ResizeCanvas(
             AddEventListener([w EXCEPT !.psys.active = TRUE], "window", "resize",
                              "initParticles"))))

\* the window's resize event: the listeners registered for it run
OnResize(w) ==
    IF Listener("window", "resize", "initParticles") \in w.listeners
       THEN ResizeCanvas(w) ELSE w

CursorCb == [kind |-> "cursor", id |-> 0]

Translate(x, y) == <<[fn |-> "translate", args |-> <<x, y>>]>>

\* initCursor: loop()
CursorLoop(w) ==
    LET c == w.page.cursor
        rx == RAdd(c.rx, RMul(RSub(c.mx, c.rx), Q(15, 100)))
        ry == RAdd(c.ry, RMul(RSub(c.my, c.ry), Q(15, 100)))
    IN  RequestAnimationFrame(
            SetStyle([w EXCEPT !.page.cursor.rx = rx, !.page.cursor.ry = ry],
                     QuerySelector(w.doc, "#cursor-ring"), "transform",
                     Translate(rx, ry), 0),
            CursorCb)

\* elements.forEach(el => { el.addEventListener(type1, ...); el.addEventListener(type2, ...) })
RECURSIVE ListenEach(_, _, _, _, _)
ListenEach(w, elements, i, types, by) ==
    IF i > Len(elements) THEN w
    ELSE ListenEach([w EXCEPT !.listeners =
                        @ \cup {Listener(elements[i].id, t, by) : t \in types}],
                    elements, i + 1, types, by)

\* document.querySelectorAll('a, button, .magnetic')
Hoverables(doc) ==
    SelectSeq(doc, LAMBDA el : el.sel \cap {"a", "button", ".magnetic"} # {})

\* initCursor()
InitCursor(w) ==
    IF \/ QuerySelector(w.doc, "#cursor-dot") = Null
       \/ QuerySelector(w.doc, "#cursor-ring") = Null
       THEN w
       ELSE ListenEach(
                CursorLoop(AddEventListener(
                    [w EXCEPT !.page.cursor = [active |-> TRUE,
                                               mx |-> R(-100), my |-> R(-100),
                                               rx |-> R(-100), ry |-> R(-100)]],
                    "window", "mousemove", "initCursor")),
                Hoverables(w.doc), 1, {"mouseenter", "mouseleave"}, "initCursor")

\* initMagnetic()
InitMagnetic(w) ==
    ListenEach(w, QuerySelectorAll(w.doc, ".magnetic"), 1, {"mousemove", "mouseleave"},
               "initMagnetic")

\* initToggle()
InitToggle(w) ==
    IF QuerySelector(w.doc, "#anim-toggle") = Null THEN w
    ELSE AddEventListener([w EXCEPT !.page.toggle.active = TRUE,
                                    !.page.toggle.isPlaying = TRUE],
                          "anim-toggle", "click", "initToggle")

\* (a click handler that also cancels the particle frame while paused and
\* starts the animation again on resume)
OnToggleClickPausing(w) ==
    LET t == w.page.toggle
        w1 == [w EXCEPT !.page.toggle = [t EXCEPT !.isPlaying = ~t.isPlaying,
                                                  !.disabled = ~t.disabled,
                                                  !.clicks = @ + 1]]
    IN  IF t.isPlaying
           THEN [w1 EXCEPT !.raf = SelectSeq(@, LAMBDA cb : cb # AnimateCb)]
           ELSE Animate(w1)

\* btn.onclick: isPlaying flips, the button's class 'disabled' toggles, the
\* body's --play-state is set
OnToggleClick(w) ==
    LET t == w.page.toggle
    IN  [w EXCEPT !.page.toggle =
            [t EXCEPT !.isPlaying = ~t.isPlaying,
                      !.disabled = ~t.disabled,
                      !.playState = IF ~t.isPlaying THEN "running" ELSE "paused",
                      \* history: the clicks handled
                      !.clicks = @ + 1]]

(***************************************************************************)
(* runEntranceAnimations()                                                 *)
(***************************************************************************)
ElementTarget(el) == [kind |-> "element", el |-> el]

HeroTextVars ==
    [opacity |-> ROne, y |-> RZero, duration |-> ROne, delay |-> Q(2, 10),
     ease |-> "easeOutExpo"]
HeroVisualVars ==
    [opacity |-> ROne, scale |-> ROne, x |-> RZero, duration |-> ROne,
     delay |-> Q(4, 10), ease |-> "easeOutExpo"]

RunEntranceAnimations(w) ==
    LET heroText == QuerySelector(w.doc, ".hero-content")
        heroVisual == QuerySelector(w.doc, ".hero-visual")
        w0 == [w EXCEPT !.page.entrances = @ + 1]
        w1 == IF heroText # Null
                 THEN To(SetStyle(SetStyle(w0, heroText, "opacity", RZero, 0),
                                  heroText, "transform",
                                  <<[fn |-> "translateY", args |-> <<R(50)>>]>>, 0),
                         ElementTarget(heroText), TRUE, HeroTextVars)
                 ELSE w0
    IN  IF heroVisual # Null
           THEN To(SetStyle(SetStyle(w1, heroVisual, "opacity", RZero, 0),
                            heroVisual, "transform",
                            <<[fn |-> "scale", args |-> <<Q(9, 10)>>],
                              [fn |-> "translateX", args |-> <<R(50)>>]>>, 0),
                   ElementTarget(heroVisual), TRUE, HeroVisualVars)
           ELSE w1

(***************************************************************************)
(* The load handler's callbacks (section 3 of the script).  A callback is  *)
(* named by the string the descriptor or the options hold for it; loader   *)
(* is the element the handler's closure holds.                             *)
(***************************************************************************)
Loader(w) == QuerySelector(w.doc, "#loader")

\* the loader fade's onComplete: the page is revealed
LoaderFadeDone(w) ==
    RunEntranceAnimations(
        [SetStyle(w, Loader(w), "display", "none", 0)
            EXCEPT !.page.loading = FALSE, !.page.reveals = @ + 1])

LoaderFadeVars ==
    [opacity |-> RZero, duration |-> Q(5, 10), onComplete |-> "loaderFadeDone"]

\* (a bar callback that reveals the page at once, without the fade)
LoaderBarDoneNoFade(w) == LoaderFadeDone(w)

\* the loader bar's onComplete: the loader fades out
LoaderBarDone(w) == To(w, ElementTarget(Loader(w)), TRUE, LoaderFadeVars)

\* (a bar descriptor with a property the engine animates)
LoaderBarVarsFading ==
    [width |-> "100%", opacity |-> ROne, duration |-> ROne, ease |-> "linear",
     onComplete |-> "loaderBarDone"]

LoaderBarVars ==
    [width |-> "100%", duration |-> ROne, ease |-> "linear",
     onComplete |-> "loaderBarDone"]

FadeUpVars ==
    [opacity |-> ROne, y |-> RZero, duration |-> Q(8, 10), ease |-> "easeOutBack"]
SlideRightVars ==
    [opacity |-> ROne, x |-> RZero, duration |-> Q(8, 10), ease |-> "easeOutExpo"]
ScaleInVars ==
    [opacity |-> ROne, scale |-> ROne, duration |-> Q(8, 10), ease |-> "easeOutBack"]

\* onEnter of the three data-anim triggers: set the start style, start the tween
EnterAnim(w, el, transform, v) ==
    To(SetStyle(SetStyle(w, el, "opacity", RZero, 0), el, "transform", transform, 0),
       ElementTarget(el), TRUE, v)

\* onEnter of '.counter': setInterval(..., 30) with target = +data-target
CounterEnter(w, el) ==
    LET target == w.page.dataTarget[el]
    IN  [w EXCEPT !.page.timers =
            Append(@, [el |-> el, target |-> target, current |-> RZero,
                       step |-> RDiv(target, R(30)), every |-> 30,
                       \* history: when it was started, how often it has run
                       startedAt |-> w.clock,
                       cleared |-> FALSE, ticks |-> 0])]

\* the time at which a running timer runs next
Due(t) == t.startedAt + t.every * (t.ticks + 1)

\* Math.floor of a number that is not negative
Floor(a) == a[1] \div a[2]

\* the interval callback of timer k: current += step; at the target or beyond it,
\* current = target and clearInterval(timer); el.innerText = Math.floor(current) + '+'
\* (texts keeps the number of every text written, in order)
OnInterval(w, k) ==
    LET t == w.page.timers[k]
        moved == RAdd(t.current, t.step)
        hit == RLe(t.target, moved)
        current == IF hit THEN t.target ELSE moved
    IN  [w EXCEPT !.page.timers[k] = [t EXCEPT !.current = current, !.cleared = hit,
                                               !.ticks = @ + 1],
                  !.page.texts = Append(@, [el |-> t.el, timer |-> k,
                                            number |-> Floor(current)])]

\* onEnter of '.skill-bar-item': the item's .progress-fill gets class 'in-view'
SkillBarEnter(w, el) ==
    [w EXCEPT !.page.fills =
        [i \in DOMAIN @ |-> IF @[i].item = el THEN [@[i] EXCEPT !.inView = TRUE]
                            ELSE @[i]]]

(***************************************************************************)
(* The callbacks the callers pass (vars.onComplete, options.onEnter,       *)
(* options.onLeave), named by what they do                                 *)
(***************************************************************************)
Record(w, cb, el) == [w EXCEPT !.fired = Append(@, [cb |-> cb, arg |-> el])]

RunOnComplete(w, cb, el) ==
    CASE cb = "record" -> Record(w, "onComplete", el)
      [] cb = "loaderBarDone" -> LoaderBarDone(w)
      [] cb = "loaderFadeDone" -> LoaderFadeDone(w)
      [] OTHER -> w

RunOnEnter(w, cb, el) ==
    CASE cb = "record" -> Record(w, "onEnter", el)
      [] cb = "fadeUp" ->
            EnterAnim(w, el, <<[fn |-> "translateY", args |-> <<R(30)>>]>>, FadeUpVars)
      [] cb = "slideRight" ->
            EnterAnim(w, el, <<[fn |-> "translateX", args |-> <<R(50)>>]>>,
                      SlideRightVars)
      [] cb = "scaleIn" ->
            EnterAnim(w, el, <<[fn |-> "scale", args |-> <<Q(8, 10)>>]>>, ScaleInVars)
      [] cb = "counter" -> CounterEnter(w, el)
      [] cb = "skillBar" -> SkillBarEnter(w, el)
      [] OTHER -> w

RunOnLeave(w, cb, el) ==
    CASE cb = "record" -> Record(w, "onLeave", el)
      [] OTHER -> w

(***************************************************************************)
(* AnimEngine.scrollTrigger: the IntersectionObserver callback             *)
(***************************************************************************)
\* (an unobserve that does nothing)
UnobserveNothing(w, r, el) == w

\* (an unobserve that stops the whole registration)
UnobserveAll(w, r, el) == [w EXCEPT !.observers[r].observed = {}]

\* observer.unobserve(entry.target)
Unobserve(w, r, el) == [w EXCEPT !.observers[r].observed = @ \ {el}]

OnEntry(w, r, entry) ==
    LET o == w.observers[r].options
        el == entry.target
    IN  IF entry.isIntersecting
           THEN LET w1 == IF Has(o, "onEnter")
                             THEN RunOnEnter([w EXCEPT !.observers[r].enters[el] = @ + 1],
                                             o.onEnter, el)
                             ELSE w
                IN  IF Has(o, "once") /\ o.once THEN Unobserve(w1, r, el) ELSE w1
           ELSE IF Has(o, "onLeave")
                   THEN RunOnLeave([w EXCEPT !.observers[r].leaves[el] = @ + 1],
                                   o.onLeave, el)
                   ELSE w

\* entries.forEach(entry => ...)
RECURSIVE ObserverCallback(_, _, _, _)
ObserverCallback(w, r, entries, i) ==
    IF i > Len(entries) THEN w
    ELSE ObserverCallback(OnEntry(w, r, entries[i]), r, entries, i + 1)

(***************************************************************************)
(* AnimEngine._animateSingle: tick(now), the per-frame callback            *)
(***************************************************************************)
Lerp(from, to, easeVal) ==
    IF easeVal = NaN THEN NaN ELSE RAdd(from, RMul(RSub(to, from), easeVal))

\* Interpolate
Current(t, easeVal) ==
    [opacity |-> Lerp(t.startState.opacity, t.endState.opacity, easeVal),
     x       |-> Lerp(t.startState.x, t.endState.x, easeVal),
     y       |-> Lerp(t.startState.y, t.endState.y, easeVal),
     scale   |-> Lerp(t.startState.scale, t.endState.scale, easeVal),
     rotate  |-> Lerp(t.startState.rotate, t.endState.rotate, easeVal)]

\* whether the tick appends the translate component
WantsTranslate(v) == Truthy(v, "x") \/ Truthy(v, "y")
WantsScale(v) == Has(v, "scale")
WantsRotate(v) == Has(v, "rotate")

\* Construct transform string: the components appended, in this order
TransformString(v, current) ==
    (IF WantsTranslate(v)
        THEN <<[fn |-> "translate", args |-> <<current.x, current.y>>]>> ELSE <<>>)
    \o (IF WantsScale(v) THEN <<[fn |-> "scale", args |-> <<current.scale>>]>> ELSE <<>>)
    \o (IF WantsRotate(v) THEN <<[fn |-> "rotate", args |-> <<current.rotate>>]>> ELSE <<>>)

\* Apply
\* (an apply step that writes the opacity whatever the descriptor holds)
ApplyStylesAll(w, id, current) ==
    LET t == w.tweens[id]
        w1 == SetStyle(w, t.el, "opacity", current.opacity, id)
        transform == TransformString(t.vars, current)
    IN  IF transform # <<>> THEN SetStyle(w1, t.el, "transform", transform, id) ELSE w1

ApplyStyles(w, id, current) ==
    LET t == w.tweens[id]
        w1 == IF Has(t.vars, "opacity")
                 THEN SetStyle(w, t.el, "opacity", current.opacity, id) ELSE w
        transform == TransformString(t.vars, current)
    IN  IF transform # <<>> THEN SetStyle(w1, t.el, "transform", transform, id) ELSE w1

\* the else branch of "if (progress < 1)"
Complete(w, id, now) ==
    LET t == w.tweens[id]
        w1 == [w EXCEPT !.tweens[id].done = @ + 1, !.tweens[id].doneAt = now]
    IN  IF Has(t.vars, "onComplete")
           THEN RunOnComplete([w1 EXCEPT !.tweens[id].doneArg = Append(@, t.el)],
                              t.vars.onComplete, t.el)
           ELSE w1

\* (a tick that requests the next frame on completion too)
ContinueAlways(w, id, progress, now) ==
    RequestAnimationFrame(IF RLt(progress, ROne) THEN w ELSE Complete(w, id, now),
                          TickCb(id))

\* if (progress < 1) requestAnimationFrame(tick); else onComplete
Continue(w, id, progress, now) ==
    IF RLt(progress, ROne) THEN RequestAnimationFrame(w, TickCb(id))
    ELSE Complete(w, id, now)

\* (a progress that is not capped at 1)
ProgressUncapped(t, now) == RDiv(RSub(now, t.startTime), t.duration)

Progress(t, now) == RMin(RDiv(RSub(now, t.startTime), t.duration), ROne)

\* (a delay phase that still holds at the start time itself)
InDelayInclusive(t, now) == RLe(now, t.startTime)

\* if (now < startTime): the delay phase
InDelay(t, now) == RLt(now, t.startTime)

\* (a tick that reads the start opacity again when the delay is over)
TickRereading(w, id, now) ==
    LET t0 == w.tweens[id]
        t == IF InDelay(t0, now) \/ t0.progress # Unset THEN t0
             ELSE [t0 EXCEPT !.startState.opacity = ComputedOpacity(w, t0.el)]
        w0 == [w EXCEPT !.tweens[id] = [t EXCEPT !.ticks = @ + 1]]
    IN  IF InDelay(t, now) THEN RequestAnimationFrame(w0, TickCb(id))
        ELSE IF t.easing \in ThrowingNames THEN [w0 EXCEPT !.error = TRUE]
        ELSE LET progress == Progress(t, now)
                 easeVal == ApplyEasing(t.easing, progress)
                 w1 == ApplyStyles(w0, id, Current(t, easeVal))
                 wrote == Len(w1.written) > Len(w0.written)
                 w2 == [w1 EXCEPT !.tweens[id].progress = progress,
                                  !.tweens[id].writes = IF wrote THEN @ + 1 ELSE @,
                                  !.tweens[id].firstWrite =
                                      IF wrote /\ @ = Unset THEN now ELSE @]
             IN  Continue(w2, id, progress, now)

Tick(w, id, now) ==
    LET t == w.tweens[id]
        w0 == [w EXCEPT !.tweens[id].ticks = @ + 1,
                        !.tweens[id].lateTicks = IF t.done > 0 THEN @ + 1 ELSE @]
    IN  IF InDelay(t, now) THEN RequestAnimationFrame(w0, TickCb(id))
        \* easing(progress) throws: the tick ends here
        ELSE IF t.easing \in ThrowingNames THEN [w0 EXCEPT !.error = TRUE]
        ELSE LET progress == Progress(t, now)
                 easeVal == ApplyEasing(t.easing, progress)
                 w1 == ApplyStyles(w0, id, Current(t, easeVal))
                 wrote == Len(w1.written) > Len(w0.written)
                 w2 == [w1 EXCEPT !.tweens[id].progress = progress,
                                  !.tweens[id].writes = IF wrote THEN @ + 1 ELSE @,
                                  !.tweens[id].firstWrite =
                                      IF wrote /\ @ = Unset THEN now ELSE @]
             IN  Continue(w2, id, progress, now)

(***************************************************************************)
(* window.addEventListener('load', ...): the main sequence                 *)
(***************************************************************************)
\* 1. Loader Sequence
\* (a loader sequence that reveals the page at once when there is no loader)
LoaderSequenceOrReveal(w) ==
    LET loader == QuerySelector(w.doc, "#loader")
        bar == QuerySelector(w.doc, ".loader-fill")
    IN  IF loader # Null /\ bar # Null
           THEN To(w, ElementTarget(bar), TRUE, LoaderBarVars)
           ELSE RunEntranceAnimations([w EXCEPT !.page.loading = FALSE,
                                                !.page.reveals = @ + 1])

LoaderSequence(w) ==
    LET loader == QuerySelector(w.doc, "#loader")
        bar == QuerySelector(w.doc, ".loader-fill")
    IN  IF loader # Null /\ bar # Null
           THEN To(w, ElementTarget(bar), TRUE, LoaderBarVars)
           ELSE w

\* 2. Init Systems
InitSystems(w) ==
    InitToggle(InitMagnetic(InitCursor(InitParticles(InitDynamicContent(w)))))

\* 3. Setup Scroll Triggers
SetupScrollTriggers(w) ==
    LET w1 == ScrollTrigger(w, "[data-anim=\"fade-up\"]", TRUE,
                            [onEnter |-> "fadeUp", once |-> TRUE])
        w2 == ScrollTrigger(w1, "[data-anim=\"slide-right\"]", TRUE,
                            [onEnter |-> "slideRight", once |-> TRUE])
        w3 == ScrollTrigger(w2, "[data-anim=\"scale-in\"]", TRUE,
                            [onEnter |-> "scaleIn", once |-> TRUE])
        w4 == ScrollTrigger(w3, ".counter", TRUE,
                            [onEnter |-> "counter", once |-> TRUE])
    IN  ScrollTrigger(w4, ".skill-bar-item", TRUE,
                      [onEnter |-> "skillBar", threshold |-> Q(5, 10), once |-> TRUE])

LoadHandler(w) ==
    SetupScrollTriggers(InitSystems(LoaderSequence([w EXCEPT !.page.loaded = TRUE])))

(***************************************************************************)
(* One animation frame: the callbacks requested since the last frame run   *)
(* in request order with the frame's timestamp; what they request runs in  *)
(* the next frame.                                                         *)
(***************************************************************************)
RunCallback(w, cb, now) ==
    CASE cb.kind = "tick" -> Tick(w, cb.id, now)
      [] cb.kind = "particles" -> Animate(w)
      [] cb.kind = "cursor" -> CursorLoop(w)
      [] OTHER -> w

RECURSIVE RunCallbacks(_, _, _, _)
RunCallbacks(w, cbs, i, now) ==
    IF i > Len(cbs) THEN w
    ELSE RunCallbacks(RunCallback(w, cbs[i], now), cbs, i + 1, now)

RunFrame(w, ts) ==
    RunCallbacks([w EXCEPT !.clock = ts, !.frameTs = ts, !.nframes = @ + 1,
                           !.raf = <<>>, !.written = <<>>, !.ran = w.raf],
                 w.raf, 1, R(ts))

(***************************************************************************)
(* State                                                                   *)
(***************************************************************************)
VARIABLES
    clock,      \* performance.now(), ms
    frameTs,    \* timestamp of the last animation frame (-1: none yet)
    nframes,    \* frames run so far
    doc,        \* the document's elements, in document order
    style,      \* el.style: the inline style of each element
    tweens,     \* the closures _animateSingle has created, by id
    raf,        \* callbacks requested for the next animation frame
    ran,        \* the callbacks the last frame ran
    written,    \* the style writes of the last frame, in order
    calls,      \* the engine calls made so far
    fired,      \* invocations of the caller's callbacks
    observers,  \* the IntersectionObservers scrollTrigger has created
    viewport,   \* window.innerWidth, window.innerHeight
    canvas,     \* the particle canvas: its width and height attributes
    psys,       \* initParticles' closure: width, height, particles
    rng,        \* the hidden state of Math.random()
    listeners,  \* the event listeners registered on the window and the elements
    page,       \* the page: the body's class, the closures of the initializers
    nentries,   \* intersection entries queued so far
    error,      \* an exception was thrown
    script      \* the calls the page script still has to make

vars == <<clock, frameTs, nframes, doc, style, tweens, raf, ran, written, calls,
          fired, observers, nentries, viewport, canvas, psys, rng, listeners,
          page, error, script>>

World ==
    [clock |-> clock, frameTs |-> frameTs, nframes |-> nframes, doc |-> doc,
     style |-> style, tweens |-> tweens, raf |-> raf, ran |-> ran,
     written |-> written, calls |-> calls, fired |-> fired,
     observers |-> observers, nentries |-> nentries, viewport |-> viewport,
     canvas |-> canvas, psys |-> psys, rng |-> rng, listeners |-> listeners,
     page |-> page, error |-> error]

Commit(w) ==
    /\ clock' = w.clock
    /\ frameTs' = w.frameTs
    /\ nframes' = w.nframes
    /\ doc' = w.doc
    /\ style' = w.style
    /\ tweens' = w.tweens
    /\ raf' = w.raf
    /\ ran' = w.ran
    /\ written' = w.written
    /\ calls' = w.calls
    /\ fired' = w.fired
    /\ observers' = w.observers
    /\ nentries' = w.nentries
    /\ viewport' = w.viewport
    /\ canvas' = w.canvas
    /\ psys' = w.psys
    /\ rng' = w.rng
    /\ listeners' = w.listeners
    /\ page' = w.page
    /\ error' = w.error

AllElements ==
    {"e1", "e2", "e3", "loader", "bar", "hero", "visual", "f1", "canvas", "dot", "ring"}
NoStyle == [opacity |-> Unset, transform |-> Unset, display |-> ""]

\* a canvas element before any script touches it (the HTML default size)
DefaultCanvas == [width |-> 300, height |-> 150]
\* initParticles not run: width and height are declared but undefined (0 here)
NoParticles ==
    [active |-> FALSE, width |-> 0, height |-> 0, particles |-> <<>>, nresizes |-> 0,
     frames |-> 0, before |-> <<>>, drawn |-> NothingDrawn]

\* the page before its load event: the body has class 'loading-state'
NoCursor == [active |-> FALSE, mx |-> RZero, my |-> RZero, rx |-> RZero, ry |-> RZero]
NoToggle ==
    [active |-> FALSE, isPlaying |-> TRUE, disabled |-> FALSE, playState |-> "",
     clicks |-> 0]
NewPage ==
    [loaded |-> FALSE, loading |-> TRUE, reveals |-> 0, entrances |-> 0,
     children |-> <<>>, fills |-> <<>>, cursor |-> NoCursor, toggle |-> NoToggle,
     dataTarget |-> <<>>, timers |-> <<>>, texts |-> <<>>]

\* the state of a page whose script has been evaluated and has done nothing yet
Blank(d, vp, seed) ==
    [clock |-> 0, frameTs |-> -1, nframes |-> 0, doc |-> d,
     style |-> [el \in AllElements |-> NoStyle],
     tweens |-> <<>>, raf |-> <<>>, ran |-> <<>>, written |-> <<>>, calls |-> <<>>,
     fired |-> <<>>, observers |-> <<>>, nentries |-> 0, viewport |-> vp,
     canvas |-> DefaultCanvas, psys |-> NoParticles, rng |-> seed,
     listeners |-> {}, page |-> NewPage, error |-> FALSE]

FrameDeltas == {100, 400}
\* the time the script lets pass before a call
CallLags == {0, 300}

\* the display refreshes, dt ms after the last thing that happened, and the
\* browser runs the frame callbacks that were requested
Frame(maxFrames) ==
    /\ nframes < maxFrames
    /\ ~error
    /\ raf # <<>>
    /\ \E dt \in FrameDeltas : Commit(RunFrame(World, clock + dt))
    /\ UNCHANGED script

\* the browser computes intersections: for a target an observer observes, an
\* entry joins the observer's queue
QueueEntry(maxEntries) ==
    /\ nentries < maxEntries
    /\ ~error
    /\ \E r \in DOMAIN observers : \E el \in observers[r].observed :
       \E b \in BOOLEAN :
          /\ observers' = [observers EXCEPT ![r].queue =
                              Append(@, [target |-> el, isIntersecting |-> b])]
          /\ nentries' = nentries + 1
    /\ UNCHANGED <<clock, frameTs, nframes, doc, style, tweens, raf, ran, written,
                   calls, fired, viewport, canvas, psys, rng, listeners, page,
                   error, script>>

\* the browser notifies an observer: its callback gets all its queued entries
Notify ==
    /\ ~error
    /\ \E r \in DOMAIN observers :
          /\ observers[r].queue # <<>>
          /\ Commit(ObserverCallback([World EXCEPT !.observers[r].queue = <<>>],
                                     r, observers[r].queue, 1))
    /\ UNCHANGED script

(***************************************************************************)
(* The engine under a caller that makes one or two calls of AnimEngine.to  *)
(* or AnimEngine.scrollTrigger at any time                                 *)
(***************************************************************************)
MaxEngineFrames == 5
MaxEntries == 4

EngineDoc == <<[id |-> "e1", sel |-> {".item", ".pair", "#first"}],
              [id |-> "e2", sel |-> {".item", ".pair"}],
              [id |-> "e3", sel |-> {".item"}]>>

TweenTargets ==
    {[kind |-> "selector", sel |-> ".item"],
     [kind |-> "selector", sel |-> ".none"],
     [kind |-> "list", els |-> <<Null, "e2">>],
     [kind |-> "list", els |-> <<>>],
     [kind |-> "list", els |-> <<Null>>],
     [kind |-> "element", el |-> "e1"],
     [kind |-> "other"]}

Descriptors ==
    {[opacity |-> RZero, onComplete |-> "record"],
     [opacity |-> ROne, y |-> RZero, duration |-> Q(8, 10), ease |-> "easeOutBack"],
     [opacity |-> ROne, delay |-> Q(1, 2), duration |-> Q(1, 2), ease |-> "linear",
      onComplete |-> "record"],
     [x |-> R(100), stagger |-> Q(1, 10), duration |-> Q(1, 2), ease |-> "linear",
      onComplete |-> "record"],
     [scale |-> R(2), rotate |-> R(90), duration |-> RZero, ease |-> "bogus"],
     [x |-> RZero, y |-> R(20), opacity |-> Q(1, 2), ease |-> "easeOutExpo",
      delay |-> RZero, onComplete |-> "record"],
     [opacity |-> ROne, scale |-> ROne, x |-> RZero, delay |-> Q(4, 10),
      ease |-> "easeOutExpo"],
     [opacity |-> ROne, stagger |-> Q(-1, 10), delay |-> Q(2, 10), duration |-> Q(1, 2)],
     [width |-> "100%", duration |-> ROne, ease |-> "linear", onComplete |-> "record"]}

ToCall(target, hasVars, v) ==
    [fn |-> "to", target |-> target, hasVars |-> hasVars, vars |-> v]

\* two calls that animate the same element
OverlapCalls ==
    {ToCall([kind |-> "element", el |-> "e1"], TRUE, v) : v \in
        {[opacity |-> RZero, onComplete |-> "record"],
         [opacity |-> ROne, delay |-> Q(1, 2), duration |-> Q(1, 2), ease |-> "linear",
          onComplete |-> "record"],
         [opacity |-> Q(1, 2), scale |-> R(2), duration |-> Q(1, 2)]}}
    \cup {ToCall([kind |-> "selector", sel |-> ".item"], TRUE,
                 [opacity |-> ROne, x |-> R(10), stagger |-> Q(1, 10),
                  ease |-> "linear", onComplete |-> "record"])}

TweenScripts ==
    {<<ToCall(t, TRUE, v)>> : t \in TweenTargets, v \in Descriptors}
    \cup {<<ToCall(t, FALSE, [opacity |-> ROne])>> : t \in TweenTargets}
    \cup {<<a, b>> : a \in OverlapCalls, b \in OverlapCalls}
    \cup {<<ToCall([kind |-> "element", el |-> "e1"], TRUE,
                    [x |-> R(100), rotate |-> R(90), duration |-> Q(1, 2)]),
             ToCall([kind |-> "element", el |-> "e1"], TRUE,
                    [opacity |-> RZero, onComplete |-> "record"])>>}

TriggerCall(selector, hasOptions, o) ==
    [fn |-> "scrollTrigger", selector |-> selector, hasOptions |-> hasOptions,
     options |-> o]

TriggerOptions ==
    {[onEnter |-> "record", onLeave |-> "record", once |-> TRUE],
     [onEnter |-> "record", onLeave |-> "record", threshold |-> Q(1, 2)],
     [onEnter |-> "record", once |-> TRUE, threshold |-> RZero],
     [onLeave |-> "record", once |-> FALSE]}

TriggerScripts ==
    {<<TriggerCall(sel, TRUE, o)>> : sel \in {".pair", ".none"}, o \in TriggerOptions}
    \cup {<<TriggerCall(sel, FALSE, [once |-> TRUE])>> : sel \in {".pair", ".none"}}
    \cup {<<TriggerCall("#first", TRUE, a), TriggerCall(".pair", TRUE, b)>> :
              a \in {[onEnter |-> "record", onLeave |-> "record", once |-> TRUE]},
              b \in {[onEnter |-> "record", onLeave |-> "record", once |-> TRUE],
                      [onEnter |-> "record", onLeave |-> "record"]}}

\* a call of each operation, at least one of them resolving to nothing
MixedScripts ==
    LET tos == {ToCall(t, hv, [opacity |-> RZero, onComplete |-> "record"]) :
                    t \in {[kind |-> "selector", sel |-> ".none"], [kind |-> "other"],
                           [kind |-> "list", els |-> <<Null>>]},
                    hv \in BOOLEAN}
        trs == {TriggerCall(".none", ho, [onEnter |-> "record", onLeave |-> "record"]) :
                    ho \in BOOLEAN}
        to1 == ToCall([kind |-> "element", el |-> "e1"], TRUE,
                      [opacity |-> RZero, onComplete |-> "record"])
        tr1 == TriggerCall("#first", TRUE, [onEnter |-> "record", onLeave |-> "record"])
    IN  {<<a, b>> : a \in tos, b \in trs \cup {tr1}}
        \cup {<<b, a>> : a \in tos \cup {to1}, b \in trs}

\* the variables hold the state w
Holds(w) ==
    /\ clock = w.clock
    /\ frameTs = w.frameTs
    /\ nframes = w.nframes
    /\ doc = w.doc
    /\ style = w.style
    /\ tweens = w.tweens
    /\ raf = w.raf
    /\ ran = w.ran
    /\ written = w.written
    /\ calls = w.calls
    /\ fired = w.fired
    /\ observers = w.observers
    /\ nentries = w.nentries
    /\ viewport = w.viewport
    /\ canvas = w.canvas
    /\ psys = w.psys
    /\ rng = w.rng
    /\ listeners = w.listeners
    /\ page = w.page
    /\ error = w.error

InitEngine ==
    /\ Holds(Blank(EngineDoc, <<320, 240>>, 0))
    /\ script \in TweenScripts \cup TriggerScripts \cup MixedScripts

\* the caller's next call, of anim.to
CallTo ==
    /\ script # <<>>
    /\ ~error
    /\ Head(script).fn = "to"
    /\ \E lag \in CallLags :
        LET c == Head(script)
        IN  Commit(To([World EXCEPT !.clock = @ + lag], c.target, c.hasVars, c.vars))
    /\ script' = Tail(script)

\* the caller's next call, of anim.scrollTrigger
CallScrollTrigger ==
    /\ script # <<>>
    /\ ~error
    /\ Head(script).fn = "scrollTrigger"
    /\ LET c == Head(script)
       IN  Commit(ScrollTrigger(World, c.selector, c.hasOptions, c.options))
    /\ script' = Tail(script)

EngineFrame == Frame(MaxEngineFrames)

EngineQueueEntry == QueueEntry(MaxEntries)

NextEngine == CallTo \/ CallScrollTrigger \/ EngineFrame \/ EngineQueueEntry \/ Notify

SpecEngine == InitEngine /\ [][NextEngine]_vars

(***************************************************************************)
(* One tween under each way of naming its easing                           *)
(***************************************************************************)
EaseNames == EasingNames \cup InheritedNames \cup {"bogus", "EaseOutQuad", ""}

EaseDescriptors ==
    {[opacity |-> RZero, scale |-> R(2), x |-> R(100), duration |-> Q(1, 2),
      ease |-> name, onComplete |-> "record"] : name \in EaseNames}
    \cup {[opacity |-> RZero, scale |-> R(2), x |-> R(100), duration |-> Q(1, 2),
            onComplete |-> "record"]}

\* tweens with linear easing, over each property the engine animates
LinearDescriptors ==
    {[x |-> R(100), duration |-> ROne, ease |-> "linear"],
     [opacity |-> Q(1, 4), y |-> R(-30), rotate |-> R(90), delay |-> Q(1, 10),
      duration |-> Q(3, 10), ease |-> "linear", onComplete |-> "record"],
     [scale |-> Q(1, 10), opacity |-> ROne, ease |-> "linear"]}

EaseTargets == {[kind |-> "element", el |-> "e1"], [kind |-> "selector", sel |-> ".pair"]}

InitEasing ==
    /\ Holds(Blank(EngineDoc, <<320, 240>>, 0))
    /\ script \in {<<ToCall(t, TRUE, v)>> :
                        t \in EaseTargets, v \in EaseDescriptors \cup LinearDescriptors}

NextEasing == CallTo \/ EngineFrame

SpecEasing == InitEasing /\ [][NextEasing]_vars

(***************************************************************************)
(* One call of AnimEngine.to, followed to the end of its tweens: the       *)
(* browser runs a frame whenever a callback is requested                   *)
(***************************************************************************)
MaxProgressFrames == 16

\* durations of 0 (the default applies), below and of a frame gap, and longer
ProgressDescriptors ==
    {[opacity |-> RZero, duration |-> RZero],
     [x |-> R(100), duration |-> Q(1, 20), ease |-> "linear", onComplete |-> "record"],
     [opacity |-> ROne, scale |-> R(2), delay |-> Q(3, 10), duration |-> Q(1, 2),
      ease |-> "easeOutExpo"],
     [y |-> R(20), stagger |-> Q(1, 10), duration |-> Q(4, 10), ease |-> "linear"],
     [opacity |-> Q(1, 2), onComplete |-> "record"]}

ProgressTargets == {[kind |-> "element", el |-> "e2"], [kind |-> "selector", sel |-> ".item"]}

InitProgress ==
    /\ Holds(Blank(EngineDoc, <<320, 240>>, 0))
    /\ script \in {<<ToCall(t, TRUE, v)>> : t \in ProgressTargets, v \in ProgressDescriptors}

ProgressFrame == Frame(MaxProgressFrames)

NextProgress == CallTo \/ ProgressFrame

\* the steps of NextProgress as the variables that count them show them: a
\* CallTo step is the one that takes the call off the script, a ProgressFrame
\* step the one that counts a frame, and each is possible exactly under its guard
CallMade == script # <<>> /\ ~error /\ Head(script).fn = "to" /\ script' = Tail(script)
FrameRun ==
    nframes < MaxProgressFrames /\ ~error /\ raf # <<>> /\ nframes' = nframes + 1

\* the caller makes its call, and the browser runs a frame that was requested
SpecProgress ==
    InitProgress /\ [][NextProgress]_vars /\ WF_script(CallMade) /\ WF_nframes(FrameRun)

(***************************************************************************)
(* The particle background on a page that has the canvas, under frames and *)
(* window resize events                                                    *)
(***************************************************************************)
MaxParticleFrames == 3
MaxResizes == 2

Viewports == {<<320, 240>>, <<160, 120>>, <<400, 300>>}
Seeds == {0, 7}

ParticleDoc == <<[id |-> "canvas", sel |-> {"#particle-canvas"}]>>

InitParticleSys ==
    /\ \E vp \in Viewports : \E seed \in Seeds :
          Holds(InitParticles(Blank(ParticleDoc, vp, seed)))
    /\ script = <<>>

\* the user resizes the window
Resize(maxResizes) ==
    /\ psys.nresizes <= maxResizes
    /\ ~error
    /\ \E vp \in Viewports \ {viewport} :
          Commit(OnResize([World EXCEPT !.viewport = vp]))
    /\ UNCHANGED script

ParticleFrame == Frame(MaxParticleFrames)
ParticleResize == Resize(MaxResizes)

NextParticles == ParticleFrame \/ ParticleResize

SpecParticles == InitParticleSys /\ [][NextParticles]_vars

(***************************************************************************)
(* The page from its load event on, under frames and intersection events   *)
(***************************************************************************)
MaxPageFrames == 6
MaxPageEntries == 2

PageDoc ==
    <<[id |-> "loader", sel |-> {"#loader"}],
      [id |-> "bar", sel |-> {".loader-fill"}],
      [id |-> "canvas", sel |-> {"#particle-canvas"}],
      [id |-> "dot", sel |-> {"#cursor-dot"}],
      [id |-> "ring", sel |-> {"#cursor-ring"}],
      [id |-> "hero", sel |-> {".hero-content"}],
      [id |-> "visual", sel |-> {".hero-visual"}],
      [id |-> "f1", sel |-> {"[data-anim=\"fade-up\"]"}]>>

InitPage ==
    /\ Holds(Blank(PageDoc, <<400, 300>>, 0))
    /\ script = <<>>

\* the window's load event
Load ==
    /\ ~page.loaded
    /\ Commit(LoadHandler(World))
    /\ UNCHANGED script

PageFrame == Frame(MaxPageFrames)
PageQueueEntry == QueueEntry(MaxPageEntries)
PageNotify == Notify

NextPage == Load \/ PageFrame \/ PageQueueEntry \/ PageNotify

SpecPage == InitPage /\ [][NextPage]_vars

(***************************************************************************)
(* A page with two counters, under intersection events and the ticks of    *)
(* the interval timers                                                     *)
(***************************************************************************)
MaxCounterEntries == 3
MaxTicks == 40

CounterDoc == <<[id |-> "c1", sel |-> {".counter"}],
                [id |-> "c2", sel |-> {".counter"}]>>

\* the data-target attributes of the counters, as numbers
CounterTargets == [el \in {"c1", "c2"} |-> IF el = "c1" THEN R(7) ELSE RZero]

InitCounter ==
    /\ Holds([Blank(CounterDoc, <<400, 300>>, 0) EXCEPT !.page.dataTarget = CounterTargets])
    /\ script = <<>>

\* time passes up to the next interval callback that is due: of the running
\* timers the one that is due first runs, the one started first among equals
Running(k) == ~page.timers[k].cleared
TimerTick(maxTicks) ==
    /\ ~error
    /\ \E k \in DOMAIN page.timers :
          /\ Running(k)
          /\ page.timers[k].ticks < maxTicks
          /\ \A j \in DOMAIN page.timers :
                Running(j) =>
                    \/ Due(page.timers[k]) < Due(page.timers[j])
                    \/ Due(page.timers[k]) = Due(page.timers[j]) /\ k <= j
          /\ Commit(OnInterval([World EXCEPT !.clock = IF Due(page.timers[k]) > @
                                                         THEN Due(page.timers[k]) ELSE @],
                                k))
    /\ UNCHANGED script

CounterTick == TimerTick(MaxTicks)
CounterQueueEntry == QueueEntry(MaxCounterEntries)

NextCounter == Load \/ CounterQueueEntry \/ Notify \/ CounterTick

SpecCounter == InitCounter /\ [][NextCounter]_vars

(***************************************************************************)
(* The same page without its loader, without the loader's bar, or without  *)
(* both                                                                    *)
(***************************************************************************)
MaxBareFrames == 5
MaxBareEntries == 1

LoaderParts == {{"loader"}, {"bar"}, {"loader", "bar"}}

InitBare ==
    /\ \E missing \in LoaderParts :
          Holds(Blank(SelectSeq(PageDoc, LAMBDA e : e.id \notin missing),
                      <<400, 300>>, 0))
    /\ script = <<>>

BareFrame == Frame(MaxBareFrames)
BareQueueEntry == QueueEntry(MaxBareEntries)

NextBare == Load \/ BareFrame \/ BareQueueEntry \/ Notify

SpecBare == InitBare /\ [][NextBare]_vars

(***************************************************************************)
(* The particle background started with a pool laid out on a grid, with    *)
(* neighbours at distances around the connection distance                   *)
(***************************************************************************)
MaxGridFrames == 4

\* the columns' x in half pixels: 0, 59.5, 119, 179, 239, 299.5, 360 px
GridX2 == <<0, 119, 238, 358, 478, 599, 720>>
RowGaps == {60, 70, 80}
\* velocities in units per frame, per particle index
Drifts ==
    {[k \in 1..PoolSize |-> <<0, 0>>],
     [k \in 1..PoolSize |-> IF k % 2 = 1 THEN <<-16, 0>> ELSE <<8, 4>>],
     [k \in 1..PoolSize |-> <<0, 8>>]}

GridPool(gap, drift) ==
    [k \in 1..PoolSize |->
        [x |-> GridX2[((k - 1) % Len(GridX2)) + 1] * (Sub \div 2),
         y |-> ((k - 1) \div Len(GridX2)) * gap * Sub,
         vx |-> drift[k][1], vy |-> drift[k][2],
         size |-> Sub, gen |-> 1]]

\* initParticles() when the random numbers of init() give the pool
InitParticlesWith(w, pool) ==
    Animate([ResizeCanvas(AddEventListener([w EXCEPT !.psys.active = TRUE],
                                           "window", "resize", "initParticles"))
                EXCEPT !.psys.particles = pool])

InitGrid ==
    /\ \E gap \in RowGaps : \E drift \in Drifts :
          Holds(InitParticlesWith(Blank(ParticleDoc, <<400, 600>>, 0),
                                  GridPool(gap, drift)))
    /\ script = <<>>

GridFrame == Frame(MaxGridFrames)

NextGrid == GridFrame

SpecGrid == InitGrid /\ [][NextGrid]_vars

(***************************************************************************)
(* Particle.update() on particles next to the right edge.  The pool is kept *)
(* in units of 1 / FineSub px here, which holds x = width - 0.1 exactly.   *)
(***************************************************************************)
MaxUpdates == 3

FineSub == 10 * Sub
\* vx of the pool's particles is offset + 1 .. offset + 50 units: together the
\* offsets cover 0 < vx <= 0.25 px
VxOffsets == {0, 50, 100, 110}
EdgeVys == {0, 7, -160}

EdgePool(width, height, offset, vy) ==
    [k \in 1..PoolSize |->
        [x |-> width * FineSub - FineSub \div 10,
         y |-> (height \div 2) * FineSub,
         vx |-> offset + k, vy |-> vy, size |-> FineSub, gen |-> 1]]

InitEdge ==
    /\ \E vp \in Viewports : \E offset \in VxOffsets : \E vy \in EdgeVys :
          Holds([Blank(ParticleDoc, vp, 0) EXCEPT
                    !.canvas = [width |-> vp[1], height |-> vp[2]],
                    !.psys = [NoParticles EXCEPT
                                 !.active = TRUE, !.width = vp[1], !.height = vp[2],
                                 !.nresizes = 1,
                                 !.particles = EdgePool(vp[1], vp[2], offset, vy)]])
    /\ script = <<>>

\* p.update() for every particle of the pool
UpdateAll(maxUpdates) ==
    /\ psys.frames < maxUpdates
    /\ psys' = [psys EXCEPT !.before = psys.particles,
                            !.particles = [k \in DOMAIN psys.particles |->
                                              UpdateIn(psys.particles[k], psys.width,
                                                       psys.height, FineSub)],
                            !.frames = @ + 1]
    /\ UNCHANGED <<clock, frameTs, nframes, doc, style, tweens, raf, ran, written,
                   calls, fired, observers, nentries, viewport, canvas, rng,
                   listeners, page, error, script>>

EdgeUpdate == UpdateAll(MaxUpdates)

NextEdge == EdgeUpdate

SpecEdge == InitEdge /\ [][NextEdge]_vars

(***************************************************************************)
(* A page with the canvas and the toggle button, under frames, resize      *)
(* events and clicks on the button                                         *)
(***************************************************************************)
MaxClicks == 2

LoopDoc ==
    <<[id |-> "canvas", sel |-> {"#particle-canvas"}],
      [id |-> "toggle", sel |-> {"#anim-toggle", "button"}]>>

InitLoop ==
    /\ Holds(Blank(LoopDoc, <<320, 240>>, 7))
    /\ script = <<>>

\* the user clicks the toggle button
ToggleClick(maxClicks) ==
    /\ Listener("anim-toggle", "click", "initToggle") \in listeners
    /\ page.toggle.clicks < maxClicks
    /\ ~error
    /\ Commit(OnToggleClick(World))
    /\ UNCHANGED script

LoopClick == ToggleClick(MaxClicks)

NextLoop == Load \/ ParticleFrame \/ ParticleResize \/ LoopClick

SpecLoop == InitLoop /\ [][NextLoop]_vars

(***************************************************************************)
(* The load event on pages that lack some of the elements the initializers *)
(* look for                                                                *)
(***************************************************************************)
MaxLoadFrames == 3

FullLoadDoc ==
    <<[id |-> "canvas", sel |-> {"#particle-canvas"}],
      [id |-> "dot", sel |-> {"#cursor-dot"}],
      [id |-> "ring", sel |-> {"#cursor-ring"}],
      [id |-> "m1", sel |-> {".magnetic", "a"}],
      [id |-> "toggle", sel |-> {"#anim-toggle", "button"}],
      [id |-> "f1", sel |-> {"[data-anim=\"fade-up\"]"}],
      [id |-> "f2", sel |-> {"[data-anim=\"scale-in\"]"}]>>

OptionalElements == {"canvas", "dot", "ring", "toggle"}

LoadDocs ==
    {SelectSeq(FullLoadDoc, LAMBDA el : el.id \notin missing) :
        missing \in SUBSET OptionalElements}

InitLoad ==
    /\ \E d \in LoadDocs : Holds(Blank(d, <<320, 240>>, 0))
    /\ script = <<>>

LoadFrame == Frame(MaxLoadFrames)

NextLoad == Load \/ LoadFrame

SpecLoad == InitLoad /\ [][NextLoad]_vars

(***************************************************************************)
(* Properties                                                              *)
(***************************************************************************)
TweenIds == DOMAIN tweens
Pending(id) == \E i \in DOMAIN raf : raf[i] = TickCb(id)
PendingCount(id) == Cardinality({i \in DOMAIN raf : raf[i] = TickCb(id)})
RanIn(id) == \E i \in DOMAIN ran : ran[i] = TickCb(id)
FrameStep == nframes' = nframes + 1

\* C1: a tween's completion callback is invoked exactly once, with the animated
\* element, in the frame whose progress reaches 1, and the tween requests no frame
\* after it; until then it stays requested, once per frame.  Each element of a
\* multi-element target has its own tween, so this holds per element.
C1_CompleteOnce ==
    /\ \A id \in TweenIds :
        LET t == tweens[id]
        IN  /\ t.done <= 1
            /\ t.done = 1 <=> t.progress = ROne
            /\ t.done = 0 => PendingCount(id) = 1
            /\ t.done = 1 =>
                /\ ~Pending(id)
                /\ t.lateTicks = 0
                /\ t.doneArg = IF Has(t.vars, "onComplete") THEN <<t.el>> ELSE <<>>
            /\ t.done = 0 => t.doneArg = <<>>
    /\ Cardinality({i \in DOMAIN fired : fired[i].cb = "onComplete"}) =
          Cardinality({id \in TweenIds :
                          Has(tweens[id].vars, "onComplete") /\ tweens[id].done = 1})
    /\ \A i \in DOMAIN fired :
          fired[i].cb = "onComplete" =>
              \E id \in TweenIds : tweens[id].done = 1 /\ tweens[id].el = fired[i].arg

\* a tween with a callback completed after several frames, and a later frame ran
\* without it
C1_Witness ==
    \E id \in TweenIds :
        /\ Has(tweens[id].vars, "onComplete")
        /\ tweens[id].done = 1
        /\ tweens[id].ticks >= 2
        /\ RLt(tweens[id].doneAt, R(frameTs))
        /\ Len(fired) >= 1

\* the delay d and the duration D of a tween, in ms, as its descriptor gives them
DelayMs(t) == RMul(t.vars.delay, R(1000))
DurationMs(t) ==
    RMul(IF Has(t.vars, "duration") /\ t.vars.duration # RZero
            THEN t.vars.duration ELSE ROne, R(1000))
CallTime(t) == R(t.calledAt)
\* the tween's descriptor makes the tick write some style property
WritesStyle(v) ==
    Has(v, "opacity") \/ Has(v, "scale") \/ Has(v, "rotate")
        \/ (Has(v, "x") /\ v.x # RZero) \/ (Has(v, "y") /\ v.y # RZero)
WroteIn(id, log) == \E i \in DOMAIN log : log[i].tween = id

\* C2: in a frame earlier than call time + d a tween writes nothing and only
\* requests the next frame; in every frame at or after call time + d it writes
\* (so its first write is in the first such frame), and it reaches progress 1 in
\* the first frame at or after call time + d + D.
C2_DelayThenRun ==
    [][FrameStep =>
        \A id \in TweenIds :
            Pending(id) =>
                LET t == tweens[id]
                    u == tweens'[id]
                    now == R(frameTs')
                    start == RAdd(CallTime(t), DelayMs(t))
                    end == RAdd(start, DurationMs(t))
                IN  IF RLt(now, start)
                       THEN /\ ~WroteIn(id, written')
                            /\ u = [t EXCEPT !.ticks = @ + 1]
                            /\ \E i \in DOMAIN raf' : raf'[i] = TickCb(id)
                       ELSE /\ WritesStyle(t.vars) => WroteIn(id, written')
                            /\ u.writes > 0 =>
                                  u.firstWrite = IF t.writes = 0 THEN now ELSE t.firstWrite
                            /\ u.done = 1 <=> RLe(end, now)
                            /\ u.done = 1 => u.progress = ROne /\ u.doneAt = now
    ]_vars

\* a delayed tween sat through a delay frame, then wrote, then finished later
C2_Witness ==
    \E id \in TweenIds :
        LET t == tweens[id]
        IN  /\ RLt(RZero, t.vars.delay)
            /\ t.done = 1
            /\ t.writes >= 2
            /\ t.ticks > t.writes
            /\ t.firstWrite # Unset
            /\ RLe(RAdd(CallTime(t), DelayMs(t)), t.firstWrite)
            /\ RLt(t.firstWrite, t.doneAt)

HasComp(tr, fn) == \E i \in DOMAIN tr : tr[i].fn = fn
CompRank(fn) == CASE fn = "translate" -> 1 [] fn = "scale" -> 2 [] fn = "rotate" -> 3
\* the tween's tick ran in the last frame, past its delay
ActiveInLastFrame(id) == RanIn(id) /\ ~RLt(R(frameTs), tweens[id].startTime)
\* the transform string the tween wrote in the last frame; empty when it wrote none
TransformWritten(id) ==
    LET W == {i \in DOMAIN written : written[i].tween = id /\ written[i].prop = "transform"}
    IN  IF W = {} THEN <<>> ELSE written[CHOOSE i \in W : TRUE].value

\* C3: in every active frame the transform a tween writes has a translate
\* component iff x or y was requested (a requested 0 included), a scale component
\* iff scale was requested, a rotate component iff rotate was requested, in the
\* order translate, scale, rotate.
C3_TransformComponents ==
    \A id \in TweenIds :
        ActiveInLastFrame(id) =>
            LET v == tweens[id].vars
                tr == TransformWritten(id)
            IN  /\ HasComp(tr, "translate") <=> (Has(v, "x") \/ Has(v, "y"))
                /\ HasComp(tr, "scale") <=> Has(v, "scale")
                /\ HasComp(tr, "rotate") <=> Has(v, "rotate")
                /\ \A i, j \in DOMAIN tr : i < j => CompRank(tr[i].fn) < CompRank(tr[j].fn)

Writers(el, prop) ==
    {i \in DOMAIN written : written[i].el = el /\ written[i].prop = prop}
RanPos(id) == CHOOSE i \in DOMAIN ran : ran[i] = TickCb(id)
\* among the writes of prop on el in the last frame, the one of the tween whose
\* tick ran last
LastRunWrite(el, prop) ==
    CHOOSE i \in Writers(el, prop) :
        \A j \in Writers(el, prop) : RanPos(written[j].tween) <= RanPos(written[i].tween)

\* C7: tweens on the same element are not coordinated: every tween stays requested
\* until its own progress reaches 1, whatever calls follow, and completes once with
\* its own callback; where several tweens wrote one property of an element in a
\* frame, the property holds the value of the tween whose tick ran last.
C7_Uncoordinated ==
    /\ \A id \in TweenIds :
        LET t == tweens[id]
        IN  /\ t.done = 0 => PendingCount(id) = 1 /\ t.progress # ROne
            /\ t.done > 0 =>
                /\ t.done = 1 /\ t.progress = ROne /\ ~Pending(id)
                /\ Has(t.vars, "onComplete") => t.doneArg = <<t.el>>
    /\ \A el \in AllElements : \A prop \in {"opacity", "transform"} :
        Writers(el, prop) # {} =>
            style[el][prop] = written[LastRunWrite(el, prop)].value

\* two tweens wrote different opacities to one element in the same frame, after
\* the earlier one had already been running when the later one was started
C7_Witness ==
    \E i, j \in DOMAIN written :
        /\ written[i].tween < written[j].tween
        /\ written[i].el = written[j].el
        /\ written[i].prop = "opacity" /\ written[j].prop = "opacity"
        /\ written[i].value # written[j].value
        /\ tweens[written[i].tween].calledAt < tweens[written[j].tween].calledAt

\* the delay of element index of a call with descriptor v, as the claim gives it
ExpectedDelay(v, index) ==
    RAdd(IF Has(v, "delay") THEN v.delay ELSE RZero,
         IF Has(v, "stagger") THEN RMul(R(index), v.stagger) ELSE RZero)
SameCall(a, b) == tweens[a].call = tweens[b].call
DelayAsStated ==
    \A id \in TweenIds :
        LET t == tweens[id]
        IN  /\ t.vars.delay = ExpectedDelay(calls[t.call].vars, t.index)
            /\ t.delay = RMul(t.vars.delay, R(1000))
            /\ t.startTime = RAdd(R(t.calledAt), t.delay)
            /\ calls[t.call].elements[t.index + 1] = t.el
\* a's first style write is in an earlier frame than b's
WroteEarlier(a, b) ==
    /\ tweens[a].writes > 0
    /\ tweens[b].writes > 0 => RLt(tweens[a].firstWrite, tweens[b].firstWrite)

\* C9 as stated: the delay of element i is the explicit delay plus i x stagger, and
\* for i < j element i never gets its first style write in an earlier frame than
\* element j.
C9_AsStated ==
    /\ DelayAsStated
    /\ \A a, b \in TweenIds :
        SameCall(a, b) /\ tweens[a].index < tweens[b].index => ~WroteEarlier(a, b)

\* C9, amended: the delay of element i is the explicit delay plus i x stagger, and
\* when the stagger is not negative, for i < j element j never gets its first
\* style write in an earlier frame than element i.
C9_StaggerCascade ==
    /\ DelayAsStated
    /\ \A a, b \in TweenIds :
        /\ SameCall(a, b) /\ tweens[a].index < tweens[b].index
        /\ ~(Has(calls[tweens[a].call].vars, "stagger")
                /\ RLt(calls[tweens[a].call].vars.stagger, RZero))
        => ~WroteEarlier(b, a)

\* stagger 0.1 s, no delay: the element at index 2 starts 200 ms after the call, and
\* has written, later than the element at index 0
C9_Witness ==
    \E a, b \in TweenIds :
        /\ SameCall(a, b)
        /\ tweens[a].index = 0 /\ tweens[b].index = 2
        /\ Has(calls[tweens[a].call].vars, "stagger")
        /\ calls[tweens[a].call].vars.stagger = Q(1, 10)
        /\ ~Has(calls[tweens[a].call].vars, "delay")
        /\ tweens[b].delay = R(200)
        /\ tweens[b].writes > 0
        /\ RLt(tweens[a].firstWrite, tweens[b].firstWrite)

Once(r) == Has(observers[r].options, "once") /\ observers[r].options.once
Targets(r) == DOMAIN observers[r].enters

\* C4: with once set, onEnter is invoked at most once for each observed element,
\* whatever the intersection notifications, several entries for one element in one
\* batch included.
C4_EnterAtMostOnce ==
    \A r \in DOMAIN observers :
        Once(r) => \A el \in Targets(r) : observers[r].enters[el] <= 1

\* C5 as stated: with once set, onLeave is never invoked.
C5_AsStated ==
    \A r \in DOMAIN observers :
        Once(r) => \A el \in Targets(r) : observers[r].leaves[el] = 0

\* C5, amended: with once set, onLeave is invoked only for a not-visible entry of
\* an element that is still observed, that is before the element's first enter or
\* in the batch of it; once the element is unobserved no notification invokes
\* onLeave (or onEnter) for it.
C5_NoLeaveOnceUnobserved ==
    [][\A r \in DOMAIN observers :
        Once(r) =>
            \A el \in Targets(r) :
                /\ Has(observers[r].options, "onEnter") =>
                      (el \notin observers[r].observed <=> observers[r].enters[el] > 0)
                /\ el \notin observers[r].observed =>
                      /\ observers'[r].leaves[el] = observers[r].leaves[el]
                      /\ observers'[r].enters[el] = observers[r].enters[el]
                      /\ el \notin observers'[r].observed
    ]_vars

\* onLeave ran for an element before its first enter; the element then entered and
\* is no longer observed, while the registration's other element still gets entries
C5_Witness ==
    \E r \in DOMAIN observers :
        /\ Once(r)
        /\ \E el \in Targets(r) :
            /\ observers[r].leaves[el] >= 1
            /\ observers[r].enters[el] = 1
            /\ el \notin observers[r].observed
            /\ \E i \in DOMAIN fired : fired[i].cb = "onLeave" /\ fired[i].arg = el
            /\ \E other \in Targets(r) \ {el} : observers[r].leaves[other] >= 2

NoElements(els) == \A i \in DOMAIN els : els[i] = Null

\* C10: a call of animate whose target resolves to no elements, or of observe whose
\* selector matches nothing, is a no-op: it requests no frame, creates no tween and
\* no observer, writes no style, invokes no callback and raises no error.
C10_EmptyIsNoOp ==
    [][(Len(calls') = Len(calls) + 1 /\ NoElements(calls'[Len(calls')].elements)) =>
          /\ UNCHANGED <<raf, tweens, style, observers, fired, written, ran, doc>>
          /\ ~error'
    ]_vars

\* both operations were called with nothing to act on, once without the descriptor
\* or the options, and nothing is requested, created or raised
C10_Witness ==
    /\ \E i, j \in DOMAIN calls :
        /\ calls[i].fn = "to" /\ NoElements(calls[i].elements)
        /\ calls[j].fn = "scrollTrigger" /\ NoElements(calls[j].elements)
        /\ Has(calls[i].vars, "missing")
    /\ script = <<>>
    /\ raf = <<>> /\ tweens = <<>> /\ observers = <<>> /\ fired = <<>>
    /\ ~error

InBounds(p) ==
    /\ 0 <= p.x /\ p.x <= psys.width * Sub
    /\ 0 <= p.y /\ p.y <= psys.height * Sub

\* C6: after the first layout and after every resize event the canvas has the
\* viewport's size and the pool has been recreated: it holds 50 particles, all
\* created after that resize and all inside the new canvas bounds.
C6_ResizeRecreatesPool ==
    psys.active =>
        /\ canvas = [width |-> viewport[1], height |-> viewport[2]]
        /\ psys.width = viewport[1] /\ psys.height = viewport[2]
        /\ Len(psys.particles) = PoolSize
        /\ \A i \in DOMAIN psys.particles :
              psys.particles[i].gen = psys.nresizes /\ InBounds(psys.particles[i])

BarTweens ==
    {id \in TweenIds : /\ Has(tweens[id].vars, "onComplete")
                       /\ tweens[id].vars.onComplete = "loaderBarDone"}
FadeTweens ==
    {id \in TweenIds : /\ Has(tweens[id].vars, "onComplete")
                       /\ tweens[id].vars.onComplete = "loaderFadeDone"}
\* the tweens runEntranceAnimations starts
EntranceTweens == {id \in TweenIds : tweens[id].vars \in {HeroTextVars, HeroVisualVars}}

\* any of the reveal's effects is there
Revealed ==
    \/ style["loader"].display = "none"
    \/ ~page.loading
    \/ page.entrances > 0
    \/ EntranceTweens # {}

\* C8: with loader and bar present, hiding the loader, removing 'loading-state'
\* and runEntranceAnimations happen at most once and together, and only after
\* the bar tween has completed and the fade tween its callback started has
\* completed; the entrance tweens are started in the fade's completing frame.
C8_RevealAfterLoaderChain ==
    /\ page.reveals <= 1 /\ page.entrances <= 1
    /\ Cardinality(BarTweens) <= 1 /\ Cardinality(FadeTweens) <= 1
    /\ \A el \in {"hero", "visual"} :
          Cardinality({id \in EntranceTweens : tweens[id].el = el}) <= 1
    /\ FadeTweens # {} =>
          \E b \in BarTweens : \A f \in FadeTweens :
             /\ tweens[b].done = 1
             /\ tweens[f].el = "loader"
             /\ R(tweens[f].calledAt) = tweens[b].doneAt
    /\ Revealed =>
          /\ style["loader"].display = "none"
          /\ ~page.loading
          /\ page.reveals = 1 /\ page.entrances = 1
          /\ \E b \in BarTweens : \E f \in FadeTweens :
                /\ tweens[b].done = 1 /\ tweens[f].done = 1
                /\ RLt(tweens[b].doneAt, tweens[f].doneAt)
                /\ \A e \in EntranceTweens : R(tweens[e].calledAt) = tweens[f].doneAt

C8_Witness ==
    /\ page.reveals = 1
    /\ \E e \in EntranceTweens : tweens[e].ticks > 0
    /\ \E id \in TweenIds : tweens[id].el = "f1" /\ tweens[id].calledAt < 1000
    /\ psys.frames > 5

\* a call of AnimEngine.to or AnimEngine.scrollTrigger by the caller
CallStep == script' # script
Completions(log) == SelectSeq(log, LAMBDA e : e.cb = "onComplete")
TickWork(t) == <<t.writes, t.done, t.ticks>>

\* C11: a call of to or scrollTrigger writes no style and invokes no completion
\* callback, it only creates tweens (or an observer) and requests their ticks; a
\* style write or a completion callback happens only in a frame step, for a tween
\* created before that frame, at a timestamp later than its call.
C11_WorkDeferred ==
    [][/\ CallStep =>
            /\ style' = style
            /\ written' = written
            /\ Completions(fired') = Completions(fired)
            /\ \A id \in DOMAIN tweens' :
                  TickWork(tweens'[id]) =
                      IF id \in DOMAIN tweens THEN TickWork(tweens[id]) ELSE <<0, 0, 0>>
            /\ Len(raf') = Len(raf) + (Len(tweens') - Len(tweens))
       /\ (style' # style \/ Completions(fired') # Completions(fired)) =>
            /\ FrameStep
            /\ DOMAIN tweens' = DOMAIN tweens
            /\ \A id \in DOMAIN tweens :
                  TickWork(tweens'[id]) # TickWork(tweens[id]) =>
                      tweens[id].calledAt < frameTs'
      ]_vars

C11_Witness ==
    \E id \in TweenIds :
        LET t == tweens[id]
        IN  /\ t.vars.delay = RZero
            /\ Has(t.vars, "opacity") /\ Has(t.vars, "onComplete")
            /\ t.done = 1 /\ t.writes >= 2
            /\ RLt(CallTime(t), t.firstWrite)

\* the descriptor names none of the four easings of the table
UnknownEase(v) == ~Has(v, "ease") \/ v.ease \notin EasingNames

\* what the tween writes for prop at progress p when it runs with easeOutQuad
QuadValue(t, prop, p) ==
    LET current == Current(t, easeOutQuad(p))
    IN  IF prop = "opacity" THEN current.opacity ELSE TransformString(t.vars, current)

\* C12: a tween whose descriptor names no easing of the table runs with
\* easeOutQuad: no error is raised, what it writes in a frame is what easeOutQuad
\* gives at the frame's progress, and at progress 1 it completes and invokes its
\* completion callback.
C12_UnknownEasingIsQuad ==
    \A id \in TweenIds :
        LET t == tweens[id]
        IN  UnknownEase(t.vars) =>
                /\ ~error
                /\ \A i \in DOMAIN written :
                      written[i].tween = id =>
                          written[i].value = QuadValue(t, written[i].prop, t.progress)
                /\ t.progress = ROne =>
                      t.done = 1 /\ (Has(t.vars, "onComplete") => t.doneArg = <<t.el>>)

Pairs == {<<i, j>> \in (1..PoolSize) \X (1..PoolSize) : i < j}
Drawing == Len(psys.drawn.circles) = PoolSize
LineDrawn(i, j) == \E k \in DOMAIN psys.drawn.lines[i] : psys.drawn.lines[i][k].j = j
TimesTested(i, j) ==
    Cardinality({k \in DOMAIN psys.drawn.tests[i] : psys.drawn.tests[i][k] = j})
\* the squared distance at which the frame compared i with j: i after its update
\* of this frame, j as the frame found it
TestDistSq(i, j) ==
    LET dx == psys.particles[i].x - psys.before[j].x
        dy == psys.particles[i].y - psys.before[j].y
    IN  dx * dx + dy * dy
Px(d) == (d * Sub) * (d * Sub)

\* C13: in a particle frame every pair i < j is compared exactly once (in i's
\* turn, never in j's), and its line is drawn exactly when the distance compared
\* is below 120: at 119 a line, at 120 and at 121 none; no line is drawn twice.
C13_PairsAndThreshold ==
    Drawing =>
        \A pr \in Pairs :
            LET i == pr[1]
                j == pr[2]
            IN  /\ TimesTested(i, j) = 1
                /\ TimesTested(j, i) = 0
                /\ LineDrawn(i, j) <=> TestDistSq(i, j) < Px(ConnectDist)
                /\ ~LineDrawn(j, i)
                /\ Cardinality({k \in DOMAIN psys.drawn.lines[i] :
                                   psys.drawn.lines[i][k].j = j}) <= 1
                /\ TestDistSq(i, j) = Px(ConnectDist - 1) => LineDrawn(i, j)
                /\ TestDistSq(i, j) \in {Px(ConnectDist), Px(ConnectDist + 1)} =>
                      ~LineDrawn(i, j)

C13_Witness ==
    /\ Drawing
    /\ psys.frames >= 3
    /\ \E pr \in Pairs : TestDistSq(pr[1], pr[2]) = Px(ConnectDist - 1)
    /\ \E pr \in Pairs : TestDistSq(pr[1], pr[2]) = Px(ConnectDist)
    /\ \E pr \in Pairs : TestDistSq(pr[1], pr[2]) = Px(ConnectDist + 1)

\* particle k was at x = width - 0.1 with 0 < vx <= 0.25 before the last update
AtEdge(k) ==
    /\ psys.before # <<>>
    /\ psys.before[k].x = psys.width * FineSub - FineSub \div 10
    /\ 0 < psys.before[k].vx /\ 4 * psys.before[k].vx <= FineSub
\* x is 0 up to the tolerance of a step (0.25 px)
NearZero(x) == 0 <= x /\ 4 * x <= FineSub

\* C14 as stated: from x = width - 0.1 with any 0 < vx <= 0.25, one update leaves
\* the particle at x approximately 0, never negative or beyond width.
C14_AsStated ==
    \A k \in DOMAIN psys.particles :
        AtEdge(k) => NearZero(psys.particles[k].x)

\* C14: from x = width - 0.1 with 0 < vx <= 0.25, one update leaves the particle
\* at x = 0 exactly when x + vx is beyond width (vx > 0.1), and otherwise at
\* x + vx, not wrapped and at most width; never negative or beyond width.
C14_WrapsWhenBeyond ==
    \A k \in DOMAIN psys.particles :
        AtEdge(k) =>
            LET b == psys.before[k]
                x == psys.particles[k].x
            IN  /\ 10 * b.vx > FineSub => x = 0
                /\ 10 * b.vx <= FineSub => x = b.x + b.vx /\ ~NearZero(x)
                /\ 0 <= x /\ x <= psys.width * FineSub

C14_Witness ==
    /\ psys.frames = 1
    /\ \E k \in DOMAIN psys.particles : AtEdge(k) /\ psys.particles[k].x = 0
    /\ \E k \in DOMAIN psys.particles :
          AtEdge(k) /\ psys.particles[k].x = psys.width * FineSub
    /\ \E k \in DOMAIN psys.particles :
          AtEdge(k) /\ psys.particles[k].x < psys.width * FineSub
                    /\ psys.particles[k].x > psys.before[k].x

\* C15: every observer is configured with exactly the threshold its caller
\* passed, 0 included, and with 0.2 when the caller passed none.
C15_ThresholdAsPassed ==
    \A r \in DOMAIN observers :
        LET o == observers[r].options
        IN  /\ Has(o, "threshold") => observers[r].threshold = o.threshold
            /\ ~Has(o, "threshold") => observers[r].threshold = DefaultThreshold

PendingAnimate == Cardinality({i \in DOMAIN raf : raf[i] = AnimateCb})

\* C16: once initParticles has started the animation, exactly one particle frame
\* callback is pending in every state; it never stops (no step ends the
\* animation), every frame runs it once and it requests itself once; a resize or
\* a click on the toggle leaves the pending callback as it is.
C16_OneParticleLoop ==
    /\ [](psys.active => PendingAnimate = 1)
    /\ [][/\ psys.active => psys.active'
          /\ (psys.active /\ FrameStep) =>
                /\ psys.frames' = psys.frames + 1
                /\ Cardinality({i \in DOMAIN ran' : ran'[i] = AnimateCb}) = 1
          /\ (psys.active /\ ~FrameStep) =>
                /\ psys.frames' = psys.frames
                /\ raf' = raf
      ]_vars

C16_Witness ==
    /\ psys.active /\ PendingAnimate = 1
    /\ psys.frames >= 3
    /\ psys.nresizes >= 3
    /\ page.toggle.clicks >= 2 /\ page.toggle.isPlaying

Present(selector) == QuerySelector(doc, selector) # Null
ListenersBy(by) == {l \in listeners : l.by = by}
Requested(cb) == \E i \in DOMAIN raf : raf[i] = cb
TriggerCalls == SelectSeq(calls, LAMBDA c : c.fn = "scrollTrigger")

\* C17: after the load handler, on a page that lacks the canvas, a cursor element
\* or the toggle button: no error; the initializer of a missing element has
\* requested no frame callback and registered no listener; the initializers of
\* the elements that are there have run, initMagnetic has run, and the five
\* scrollTrigger registrations have been made, in order.
C17_MissingAnchorsAreLocal ==
    page.loaded =>
        /\ ~error
        /\ IF Present("#particle-canvas")
              THEN psys.active /\ Requested(AnimateCb)
                   /\ ListenersBy("initParticles") # {}
              ELSE ~psys.active /\ ~Requested(AnimateCb)
                   /\ ListenersBy("initParticles") = {}
        /\ IF Present("#cursor-dot") /\ Present("#cursor-ring")
              THEN page.cursor.active /\ Requested(CursorCb)
                   /\ Listener("toggle", "mouseenter", "initCursor") \in listeners
                         <=> Present("#anim-toggle")
              ELSE ~page.cursor.active /\ ~Requested(CursorCb)
                   /\ ListenersBy("initCursor") = {}
        /\ ListenersBy("initMagnetic") =
              {Listener("m1", t, "initMagnetic") : t \in {"mousemove", "mouseleave"}}
        /\ IF Present("#anim-toggle")
              THEN page.toggle.active /\ ListenersBy("initToggle") # {}
              ELSE ~page.toggle.active /\ ListenersBy("initToggle") = {}
        /\ [i \in DOMAIN TriggerCalls |-> TriggerCalls[i].vars.onEnter] =
              <<"fadeUp", "slideRight", "scaleIn", "counter", "skillBar">>
        /\ Len(observers) = 2
        /\ observers[1].observed = {"f1"} /\ observers[2].observed = {"f2"}

C17_Witness ==
    /\ page.loaded
    /\ ~Present("#particle-canvas") /\ ~Present("#cursor-ring") /\ ~Present("#anim-toggle")
    /\ Present("#cursor-dot")
    /\ raf = <<>>
    /\ Len(observers) = 2

\* the time since the tween's start, at the last frame
Elapsed(t) == RSub(R(frameTs), RAdd(CallTime(t), DelayMs(t)))
\* start + (end - start) * min(e / duration, 1)
LinearAt(start, end, t) ==
    RAdd(start, RMul(RSub(end, start), RMin(RDiv(Elapsed(t), DurationMs(t)), ROne)))
\* the start and the end value of a property: the descriptor's end value, or the
\* start value for a component the descriptor leaves out
StartOf(t, prop) ==
    CASE prop = "opacity" -> t.startState.opacity
      [] prop = "scale" -> ROne
      [] OTHER -> RZero
EndOf(t, prop) == IF Has(t.vars, prop) THEN t.vars[prop] ELSE StartOf(t, prop)
LinearValue(t, prop) == LinearAt(StartOf(t, prop), EndOf(t, prop), t)
LinearArgs(t, fn) ==
    CASE fn = "translate" -> <<LinearValue(t, "x"), LinearValue(t, "y")>>
      [] fn = "scale" -> <<LinearValue(t, "scale")>>
      [] fn = "rotate" -> <<LinearValue(t, "rotate")>>
EndArgs(t, fn) ==
    CASE fn = "translate" -> <<EndOf(t, "x"), EndOf(t, "y")>>
      [] fn = "scale" -> <<EndOf(t, "scale")>>
      [] fn = "rotate" -> <<EndOf(t, "rotate")>>
IsLinear(t) == Has(t.vars, "ease") /\ t.vars.ease = "linear"

C18_WitnessEnd ==
    \E id \in TweenIds :
        /\ IsLinear(tweens[id]) /\ tweens[id].doneAt = R(frameTs)
        /\ RLt(DurationMs(tweens[id]), Elapsed(tweens[id]))

TransformProps == {"x", "y", "scale", "rotate"}
OmitsOpacity(v) == ~Has(v, "opacity")
OmitsTransform(v) == \A k \in TransformProps : ~Has(v, k)
\* among the writes of the last frame
WroteProp(id, prop) ==
    \E i \in DOMAIN written : written[i].tween = id /\ written[i].prop = prop

\* C19: a tween whose descriptor has no opacity writes the element's opacity in
\* no frame (the log holds the writes of the last frame), and a tween whose descriptor has none of x, y, scale and rotate
\* writes the element's transform in no frame.
C19_OmittedNotWritten ==
    \A id \in TweenIds :
        /\ OmitsOpacity(tweens[id].vars) => ~WroteProp(id, "opacity")
        /\ OmitsTransform(tweens[id].vars) => ~WroteProp(id, "transform")

\* a completed tween of each kind: one that wrote its transform and has no
\* opacity, one that wrote its opacity and has no transform property
C19_Witness ==
    /\ \E id \in TweenIds :
          /\ OmitsOpacity(tweens[id].vars) /\ tweens[id].writes >= 2
          /\ tweens[id].done > 0
    /\ \E id \in TweenIds :
          /\ OmitsTransform(tweens[id].vars) /\ tweens[id].writes >= 2
          /\ tweens[id].done > 0 /\ WroteProp(id, "opacity")

\* a position inside a canvas of the given size
Inside(p, width, height) ==
    /\ 0 <= p.x /\ p.x <= width * Sub
    /\ 0 <= p.y /\ p.y <= height * Sub

\* C20: at the end of every particle frame, the first one included, every
\* particle has 0 <= x <= width and 0 <= y <= height for the canvas size of that
\* moment, whatever resizes came between the frames.
C20_InBoundsAfterFrame ==
    /\ Drawing =>
          \A i \in DOMAIN psys.particles :
              Inside(psys.particles[i], canvas.width, canvas.height)
    /\ psys.active => psys.width = canvas.width /\ psys.height = canvas.height

\* a frame has ended that found particles beyond the right and the bottom edge
\* of a canvas that two resize events had changed
C20_Witness ==
    /\ Drawing
    /\ psys.frames >= 3
    /\ psys.nresizes >= 3
    /\ \E i \in DOMAIN psys.before :
          /\ psys.before[i].x > psys.width * Sub
          /\ psys.particles[i].x = 0
    /\ \E i \in DOMAIN psys.before :
          /\ psys.before[i].y > psys.height * Sub
          /\ psys.particles[i].y = 0

\* the step delivers the queued entries of registration r to its callback
Delivered(r) == observers[r].queue # <<>> /\ observers'[r].queue = <<>>
EnterQueued(r, el) ==
    \E k \in DOMAIN observers[r].queue :
        observers[r].queue[k] = [target |-> el, isIntersecting |-> TRUE]
EnterRecorded(el) ==
    \E k \in DOMAIN fired' :
        k > Len(fired) /\ fired'[k] = [cb |-> "onEnter", arg |-> el]

\* C21: within a registration with once, an element stops being observed only by
\* its own enter, so the enter of A leaves B observed; an observed element whose
\* enter is delivered gets its own onEnter; and the delivery to one registration
\* changes nothing of another registration, the same element included.
C21_UnobservedIndividually ==
    [][\A r \in DOMAIN observers :
        /\ \A el \in Targets(r) :
              /\ (el \in observers[r].observed /\ el \notin observers'[r].observed) =>
                    /\ Once(r)
                    /\ Delivered(r) /\ EnterQueued(r, el)
              /\ (/\ Delivered(r) /\ EnterQueued(r, el)
                  /\ el \in observers[r].observed
                  /\ Has(observers[r].options, "onEnter")) =>
                    /\ observers'[r].enters[el] > observers[r].enters[el]
                    /\ observers[r].options.onEnter = "record" => EnterRecorded(el)
        /\ Delivered(r) =>
              \A q \in DOMAIN observers \ {r} : observers'[q] = observers[q]
    ]_vars

\* A has entered and is no longer observed; B of the same registration has not
\* entered, is observed and its enter is queued; a second registration still
\* observes A, which has not entered there
C21_Witness ==
    \E r, q \in DOMAIN observers :
        /\ r # q /\ Once(r) /\ Once(q)
        /\ \E A, B \in Targets(r) :
              /\ A # B
              /\ observers[r].enters[A] = 1 /\ A \notin observers[r].observed
              /\ observers[r].enters[B] = 0 /\ B \in observers[r].observed
              /\ observers[r].queue = <<[target |-> B, isIntersecting |-> TRUE]>>
              /\ A \in observers[q].observed /\ observers[q].enters[A] = 0

\* where the frame drew the circle of particle k
CircleAt(k) == <<psys.drawn.circles[k][1], psys.drawn.circles[k][2]>>
\* the squared distance between the circles of i and j
CircleDistSq(i, j) ==
    LET dx == CircleAt(i)[1] - CircleAt(j)[1]
        dy == CircleAt(i)[2] - CircleAt(j)[2]
    IN  dx * dx + dy * dy

\* C22: in each particle frame, for every pair i < j the distance test and the
\* endpoints of the line use the positions of both particles after the frame's
\* advance, the positions at which their circles are drawn in that frame.
C22_LinesJoinCircles ==
    Drawing =>
        \A pr \in Pairs :
            LET i == pr[1]
                j == pr[2]
            IN  /\ LineDrawn(i, j) <=> CircleDistSq(i, j) < Px(ConnectDist)
                /\ \A k \in DOMAIN psys.drawn.lines[i] :
                      psys.drawn.lines[i][k].j = j =>
                          /\ psys.drawn.lines[i][k].from = CircleAt(i)
                          /\ psys.drawn.lines[i][k].to = CircleAt(j)

\* what the closure of a tween holds
Closure(t) == <<t.el, t.startState, t.endState, t.startTime, t.duration, t.easing>>
\* the opacity of el as the state before the step computes it
OpacityNow(el) ==
    LET v == IF style[el].opacity = Unset THEN CssOpacity(el) ELSE style[el].opacity
    IN  IF RLt(v, RZero) THEN RZero ELSE IF RLt(ROne, v) THEN ROne ELSE v
\* the opacity a frame at time now writes for a tween that starts from opacity from
OpacityFrom(t, from, now) ==
    LET p == RMin(RDiv(RSub(now, t.startTime), t.duration), ROne)
    IN  RAdd(from, RMul(RSub(t.endState.opacity, from), ApplyEasing(t.easing, p)))

\* C23: the start opacity, the end values and the start time of a tween are the
\* ones of the call (the opacity the element had then, the descriptor's values,
\* call time plus delay) and no step changes them; every opacity a frame writes,
\* the first one after the delay included, is interpolated from the opacity read
\* at the call, whatever the element's opacity has become.
C23_FixedAtCall ==
    [][/\ \A id \in TweenIds : Closure(tweens'[id]) = Closure(tweens[id])
       /\ \A id \in DOMAIN tweens' \ TweenIds :
             LET t == tweens'[id]
             IN  /\ t.startState.opacity = OpacityNow(t.el)
                 /\ t.startTime = RAdd(R(clock'), DelayMs(t))
                 /\ \A prop \in {"opacity", "x", "y", "scale", "rotate"} :
                       t.endState[prop] = EndOf(t, prop)
       /\ FrameStep =>
             \A i \in DOMAIN written' :
                 (written'[i].tween \in TweenIds /\ written'[i].prop = "opacity") =>
                     written'[i].value =
                         OpacityFrom(tweens[written'[i].tween],
                                     tweens[written'[i].tween].startState.opacity,
                                     R(frameTs'))
    ]_vars

\* tween b on the element of tween a has just left its delay and written for the
\* first time; during the delay a had changed the element's opacity, and what b
\* wrote is not what the opacity left by a would have given
C23_Witness ==
    \E a, b \in TweenIds :
        /\ a # b /\ tweens[a].el = tweens[b].el
        /\ RLt(RZero, tweens[b].delay)
        /\ tweens[b].firstWrite = R(frameTs) /\ tweens[b].ticks >= 2
        /\ tweens[a].writes >= 1 /\ RLt(tweens[a].firstWrite, tweens[b].startTime)
        /\ RLt(tweens[b].progress, ROne)
        /\ \E i, k \in DOMAIN written :
              /\ written[i].tween = a /\ written[i].prop = "opacity"
              /\ written[k].tween = b /\ written[k].prop = "opacity"
              /\ i < k
              /\ written[i].value # tweens[b].startState.opacity
              /\ written[k].value # OpacityFrom(tweens[b], written[i].value, R(frameTs))

\* the duration in ms that the descriptor of a tween asks for
AskedMs(t) == IF Has(t.vars, "duration") THEN RMul(t.vars.duration, R(1000)) ELSE R(1000)
\* a frame in which the tween is past its delay
ActiveFrame(id) == FrameStep /\ Pending(id) /\ RLe(tweens[id].startTime, R(frameTs'))
AllComplete == script = <<>> /\ \A id \in TweenIds : tweens[id].progress = ROne

\* C24: for a duration >= 0 the effective duration is positive (the one asked
\* for, or 1 s for 0 or none); in every active frame the progress is a value in
\* [0, 1], it never decreases from frame to frame, and with frames that keep
\* coming every tween reaches progress 1 and stays there.
C24_ProgressReachesOne ==
    /\ [](\A id \in TweenIds :
            /\ RLt(RZero, tweens[id].duration)
            /\ tweens[id].duration =
                   IF AskedMs(tweens[id]) = RZero THEN R(1000) ELSE AskedMs(tweens[id])
            /\ tweens[id].progress # Unset =>
                   RLe(RZero, tweens[id].progress) /\ RLe(tweens[id].progress, ROne))
    /\ [][\A id \in TweenIds :
            /\ ActiveFrame(id) => tweens'[id].progress # Unset
            /\ tweens[id].progress # Unset =>
                  /\ tweens'[id].progress # Unset
                  /\ RLe(tweens[id].progress, tweens'[id].progress)
      ]_vars
    /\ <>[]AllComplete

\* a tween called with duration 0 ran for 1 s: several frames with a progress
\* below 1, then the frame that completed it
C24_Witness ==
    \E id \in TweenIds :
        /\ Has(tweens[id].vars, "duration") /\ tweens[id].vars.duration = RZero
        /\ tweens[id].duration = R(1000)
        /\ tweens[id].progress = ROne /\ tweens[id].done = 1
        /\ tweens[id].writes >= 3
        /\ RLe(RAdd(tweens[id].startTime, R(1000)), tweens[id].doneAt)

HasElement(id) == \E i \in DOMAIN doc : doc[i].id = id
\* a style write to one of the hero elements, by runEntranceAnimations or a tween
HeroWritten == \E el \in {"hero", "visual"} : HasElement(el) /\ style[el] # NoStyle

\* C25: on a page without the loader or without the loader's bar, the load event
\* starts no loader tween, and no later frame or intersection event removes the
\* loading state or runs runEntranceAnimations: the hero elements are never
\* written and get no tween.
C25_NoRevealWithoutLoader ==
    (~HasElement("loader") \/ ~HasElement("bar")) =>
        /\ page.loading
        /\ page.reveals = 0 /\ page.entrances = 0
        /\ BarTweens = {} /\ FadeTweens = {} /\ EntranceTweens = {}
        /\ ~HeroWritten
        /\ ~error

\* later than the loader chain would have ended (1.5 s after load), with frames
\* run and a scroll animation started, the page is still in its loading state
C25_Witness ==
    /\ ~HasElement("loader") \/ ~HasElement("bar")
    /\ page.loaded /\ page.loading
    /\ clock >= 1500 /\ nframes >= 4
    /\ psys.frames >= 4
    /\ \E id \in TweenIds : tweens[id].el = "f1" /\ tweens[id].done = 1

WritesOf(id, log) == {i \in DOMAIN log : log[i].tween = id}
\* the time 1 s after the call that started tween id
DueAt(id) == RAdd(R(tweens[id].calledAt), R(1000))

\* C26: the loader-bar tween writes no style of the bar in any frame, and the bar
\* has no style written at all; its completion callback runs once, in the first
\* frame whose timestamp is at least 1 s after the load event, and what it does
\* is to start the loader's fade.
C26_BarOnlyCompletes ==
    /\ [](/\ HasElement("bar") => style["bar"] = NoStyle
          /\ \A b \in BarTweens :
                /\ tweens[b].el = "bar"
                /\ tweens[b].vars.width = "100%" /\ tweens[b].duration = R(1000)
                /\ tweens[b].easing = "linear"
                /\ tweens[b].writes = 0 /\ WritesOf(b, written) = {}
                /\ tweens[b].done <= 1
                /\ tweens[b].done = 1 <=> FadeTweens # {})
    /\ [][\A b \in BarTweens :
            /\ (FrameStep /\ tweens[b].done = 0) =>
                  (tweens'[b].done = 1 <=> RLe(DueAt(b), R(frameTs')))
            /\ tweens'[b].done = 1 /\ tweens[b].done = 0 =>
                  /\ FrameStep
                  /\ tweens'[b].doneAt = R(frameTs')
                  /\ Cardinality(FadeTweens') = 1 /\ FadeTweens = {}
            /\ tweens[b].done = 1 => tweens'[b] = tweens[b]
      ]_vars

\* the bar tween sat through frames before its second was over, completed in a
\* later frame and started the fade, and the bar was never written
C26_Witness ==
    \E b \in BarTweens :
        /\ tweens[b].done = 1 /\ tweens[b].ticks >= 3 /\ tweens[b].writes = 0
        /\ RLt(DueAt(b), tweens[b].doneAt)
        /\ style["bar"] = NoStyle
        /\ \E f \in FadeTweens : tweens[f].writes >= 1

TimersOf(el) == {k \in DOMAIN page.timers : page.timers[k].el = el}
TextsOf(el) == SelectSeq(page.texts, LAMBDA x : x.el = el)
Counters == {"c1", "c2"}

\* C27: for a counter with an integer data-target >= 0, a timer is cleared after
\* at most 30 ticks, the numbers shown never decrease and never exceed the
\* target, the last text of a counter whose timer is cleared is the target, and
\* at most one timer is ever started for a counter element.
C27_CounterRunsOnce ==
    /\ \A k \in DOMAIN page.timers :
          /\ page.timers[k].ticks <= 30
          /\ page.timers[k].ticks = 30 => page.timers[k].cleared
    /\ \A el \in Counters :
          LET texts == TextsOf(el)
          IN  /\ \A i \in DOMAIN texts :
                    /\ texts[i].number <= Floor(page.dataTarget[el])
                    /\ i > 1 => texts[i - 1].number <= texts[i].number
              /\ (TimersOf(el) # {} /\ \A k \in TimersOf(el) : page.timers[k].cleared) =>
                    texts[Len(texts)].number = Floor(page.dataTarget[el])
              /\ Cardinality(TimersOf(el)) <= 1

\* the same for the counters that got one enter only
C27_SingleEnter ==
    /\ \A k \in DOMAIN page.timers :
          /\ page.timers[k].ticks <= 30
          /\ page.timers[k].ticks = 30 => page.timers[k].cleared
    /\ \A el \in Counters :
          Cardinality(TimersOf(el)) = 1 =>
              LET texts == TextsOf(el)
              IN  /\ \A i \in DOMAIN texts :
                        /\ texts[i].number <= Floor(page.dataTarget[el])
                        /\ i > 1 => texts[i - 1].number <= texts[i].number
                  /\ (\A k \in TimersOf(el) : page.timers[k].cleared) =>
                        texts[Len(texts)].number = Floor(page.dataTarget[el])
====
